---- MODULE Spec2Model ----
(***************************************************************************)
(* A model of the Splendor arena (pashneal/splendor_arena): the rules      *)
(* engine of src/game_logic (Game, Player, Gems, GameHistory) and the      *)
(* per-client match runtime of src/arena/protocol/local.rs.                *)
(*                                                                         *)
(* Conventions.  A Gems value is the 6-tuple <<onyx, sapphire, emerald,    *)
(* ruby, diamond, gold>>; a colour is its index 1..6.  A Cost is kept in   *)
(* its to_gems() form (gold = 0).  A HashSet<Gem> is kept as its 0/1       *)
(* characteristic vector.  Players, tiers, card ids and noble ids are      *)
(* 0-based as in the source; TLA+ sequences are 1-based, hence the "+ 1"   *)
(* at every index.  Option values are records [is_some, value].            *)
(***************************************************************************)
EXTENDS Integers, Sequences, FiniteSets, TLC

----------------------------------------------------------------------------
(* gem.rs, gems.rs *)

Onyx == 1
Sapphire == 2
Emerald == 3
Ruby == 4
Diamond == 5
Gold == 6

\* Gem::all(): the six colours in declaration order.
GemAll == <<Onyx, Sapphire, Emerald, Ruby, Diamond, Gold>>

\* Gem::all_expect_gold(): the five non-gold colours.
GemAllExpectGold == <<Onyx, Sapphire, Emerald, Ruby, Diamond>>

GemsEmpty == <<0, 0, 0, 0, 0, 0>>

GemsOne(color) ==
  <<IF color = 1 THEN 1 ELSE 0, IF color = 2 THEN 1 ELSE 0, IF color = 3 THEN 1 ELSE 0,
    IF color = 4 THEN 1 ELSE 0, IF color = 5 THEN 1 ELSE 0, IF color = 6 THEN 1 ELSE 0>>

\* Gems::start(players); any other player count panics.
GemsStart(players) ==
  CASE players = 2 -> <<4, 4, 4, 4, 4, 5>>
    [] players = 3 -> <<5, 5, 5, 5, 5, 5>>
    [] players = 4 -> <<7, 7, 7, 7, 7, 5>>

GemsLegal(g) == \A c \in 1..6 : g[c] >= 0

GemsTotal(g) == g[1] + g[2] + g[3] + g[4] + g[5] + g[6]

\* Gems::distinct(): the number of non-empty non-gold piles.
GemsDistinct(g) == Cardinality({c \in 1..5 : g[c] > 0})

GemsAdd(a, b) ==
  <<a[1] + b[1], a[2] + b[2], a[3] + b[3], a[4] + b[4], a[5] + b[5], a[6] + b[6]>>

GemsSub(a, b) ==
  <<a[1] - b[1], a[2] - b[2], a[3] - b[3], a[4] - b[4], a[5] - b[5], a[6] - b[6]>>

\* Gems::to_set(): gold is never a member.
GemsToSet(g) ==
  <<IF g[1] > 0 THEN 1 ELSE 0, IF g[2] > 0 THEN 1 ELSE 0, IF g[3] > 0 THEN 1 ELSE 0,
    IF g[4] > 0 THEN 1 ELSE 0, IF g[5] > 0 THEN 1 ELSE 0, 0>>

\* Gems::from_set(set): one gem of every member.
GemsFromSet(set) ==
  <<IF set[1] > 0 THEN 1 ELSE 0, IF set[2] > 0 THEN 1 ELSE 0, IF set[3] > 0 THEN 1 ELSE 0,
    IF set[4] > 0 THEN 1 ELSE 0, IF set[5] > 0 THEN 1 ELSE 0, IF set[6] > 0 THEN 1 ELSE 0>>

\* HashSet<Gem>::len()
SetLen(set) == Cardinality({c \in 1..6 : set[c] > 0})

None == [is_some |-> FALSE, value |-> {}]

Some(v) == [is_some |-> TRUE, value |-> v]

----------------------------------------------------------------------------
(* card.rs, nobles.rs *)

\* Cost::discounted_with(gems).to_gems()
DiscountedWith(cost, gems) ==
  LET d(c) == IF cost[c] - gems[c] > 0 THEN cost[c] - gems[c] ELSE 0
  IN  <<d(1), d(2), d(3), d(4), d(5), 0>>

\* Card::all_const(): the 90 cards; card id i is CardTable[i + 1].
CardTable ==
  <<
    [id |-> 0, tier |-> 1, gem |-> 1, points |-> 0, cost |-> <<0,1,1,1,1,0>>],
    [id |-> 1, tier |-> 1, gem |-> 1, points |-> 0, cost |-> <<0,2,1,1,1,0>>],
    [id |-> 2, tier |-> 1, gem |-> 1, points |-> 0, cost |-> <<0,2,0,1,2,0>>],
    [id |-> 3, tier |-> 1, gem |-> 1, points |-> 0, cost |-> <<1,0,1,3,0,0>>],
    [id |-> 4, tier |-> 1, gem |-> 1, points |-> 0, cost |-> <<0,0,2,1,0,0>>],
    [id |-> 5, tier |-> 1, gem |-> 1, points |-> 0, cost |-> <<0,0,2,0,2,0>>],
    [id |-> 6, tier |-> 1, gem |-> 1, points |-> 0, cost |-> <<0,0,3,0,0,0>>],
    [id |-> 7, tier |-> 1, gem |-> 1, points |-> 1, cost |-> <<0,4,0,0,0,0>>],
    [id |-> 8, tier |-> 1, gem |-> 2, points |-> 0, cost |-> <<1,0,1,1,1,0>>],
    [id |-> 9, tier |-> 1, gem |-> 2, points |-> 0, cost |-> <<1,0,1,2,1,0>>],
    [id |-> 10, tier |-> 1, gem |-> 2, points |-> 0, cost |-> <<0,0,2,2,1,0>>],
    [id |-> 11, tier |-> 1, gem |-> 2, points |-> 0, cost |-> <<0,1,3,1,0,0>>],
    [id |-> 12, tier |-> 1, gem |-> 2, points |-> 0, cost |-> <<2,0,0,0,1,0>>],
    [id |-> 13, tier |-> 1, gem |-> 2, points |-> 0, cost |-> <<2,0,2,0,0,0>>],
    [id |-> 14, tier |-> 1, gem |-> 2, points |-> 0, cost |-> <<3,0,0,0,0,0>>],
    [id |-> 15, tier |-> 1, gem |-> 2, points |-> 1, cost |-> <<0,0,0,4,0,0>>],
    [id |-> 16, tier |-> 1, gem |-> 5, points |-> 0, cost |-> <<1,1,1,1,0,0>>],
    [id |-> 17, tier |-> 1, gem |-> 5, points |-> 0, cost |-> <<1,1,2,1,0,0>>],
    [id |-> 18, tier |-> 1, gem |-> 5, points |-> 0, cost |-> <<1,2,2,0,0,0>>],
    [id |-> 19, tier |-> 1, gem |-> 5, points |-> 0, cost |-> <<1,1,0,0,3,0>>],
    [id |-> 20, tier |-> 1, gem |-> 5, points |-> 0, cost |-> <<1,0,0,2,0,0>>],
    [id |-> 21, tier |-> 1, gem |-> 5, points |-> 0, cost |-> <<2,2,0,0,0,0>>],
    [id |-> 22, tier |-> 1, gem |-> 5, points |-> 0, cost |-> <<0,3,0,0,0,0>>],
    [id |-> 23, tier |-> 1, gem |-> 5, points |-> 1, cost |-> <<0,0,4,0,0,0>>],
    [id |-> 24, tier |-> 1, gem |-> 3, points |-> 0, cost |-> <<1,1,0,1,1,0>>],
    [id |-> 25, tier |-> 1, gem |-> 3, points |-> 0, cost |-> <<2,1,0,1,1,0>>],
    [id |-> 26, tier |-> 1, gem |-> 3, points |-> 0, cost |-> <<2,1,0,2,0,0>>],
    [id |-> 27, tier |-> 1, gem |-> 3, points |-> 0, cost |-> <<0,3,1,0,1,0>>],
    [id |-> 28, tier |-> 1, gem |-> 3, points |-> 0, cost |-> <<0,1,0,0,2,0>>],
    [id |-> 29, tier |-> 1, gem |-> 3, points |-> 0, cost |-> <<0,2,0,2,0,0>>],
    [id |-> 30, tier |-> 1, gem |-> 3, points |-> 0, cost |-> <<0,0,0,3,0,0>>],
    [id |-> 31, tier |-> 1, gem |-> 3, points |-> 1, cost |-> <<4,0,0,0,0,0>>],
    [id |-> 32, tier |-> 1, gem |-> 4, points |-> 0, cost |-> <<1,1,1,0,1,0>>],
    [id |-> 33, tier |-> 1, gem |-> 4, points |-> 0, cost |-> <<1,1,1,0,2,0>>],
    [id |-> 34, tier |-> 1, gem |-> 4, points |-> 0, cost |-> <<2,0,1,0,2,0>>],
    [id |-> 35, tier |-> 1, gem |-> 4, points |-> 0, cost |-> <<3,0,0,1,1,0>>],
    [id |-> 36, tier |-> 1, gem |-> 4, points |-> 0, cost |-> <<0,2,1,0,0,0>>],
    [id |-> 37, tier |-> 1, gem |-> 4, points |-> 0, cost |-> <<0,0,0,2,2,0>>],
    [id |-> 38, tier |-> 1, gem |-> 4, points |-> 0, cost |-> <<0,0,0,0,3,0>>],
    [id |-> 39, tier |-> 1, gem |-> 4, points |-> 1, cost |-> <<0,0,0,0,4,0>>],
    [id |-> 40, tier |-> 2, gem |-> 1, points |-> 1, cost |-> <<0,2,2,0,3,0>>],
    [id |-> 41, tier |-> 2, gem |-> 1, points |-> 1, cost |-> <<2,0,3,0,3,0>>],
    [id |-> 42, tier |-> 2, gem |-> 1, points |-> 2, cost |-> <<0,1,4,2,0,0>>],
    [id |-> 43, tier |-> 2, gem |-> 1, points |-> 2, cost |-> <<0,0,5,3,0,0>>],
    [id |-> 44, tier |-> 2, gem |-> 1, points |-> 2, cost |-> <<0,0,0,0,5,0>>],
    [id |-> 45, tier |-> 2, gem |-> 1, points |-> 3, cost |-> <<6,0,0,0,0,0>>],
    [id |-> 46, tier |-> 2, gem |-> 2, points |-> 1, cost |-> <<0,2,2,3,0,0>>],
    [id |-> 47, tier |-> 2, gem |-> 2, points |-> 1, cost |-> <<3,2,3,0,0,0>>],
    [id |-> 48, tier |-> 2, gem |-> 2, points |-> 2, cost |-> <<0,3,0,0,5,0>>],
    [id |-> 49, tier |-> 2, gem |-> 2, points |-> 2, cost |-> <<4,0,0,1,2,0>>],
    [id |-> 50, tier |-> 2, gem |-> 2, points |-> 2, cost |-> <<0,5,0,0,0,0>>],
    [id |-> 51, tier |-> 2, gem |-> 2, points |-> 3, cost |-> <<0,6,0,0,0,0>>],
    [id |-> 52, tier |-> 2, gem |-> 5, points |-> 1, cost |-> <<2,0,3,2,0,0>>],
    [id |-> 53, tier |-> 2, gem |-> 5, points |-> 1, cost |-> <<0,3,0,3,2,0>>],
    [id |-> 54, tier |-> 2, gem |-> 5, points |-> 2, cost |-> <<2,0,1,4,0,0>>],
    [id |-> 55, tier |-> 2, gem |-> 5, points |-> 2, cost |-> <<3,0,0,5,0,0>>],
    [id |-> 56, tier |-> 2, gem |-> 5, points |-> 2, cost |-> <<0,0,0,5,0,0>>],
    [id |-> 57, tier |-> 2, gem |-> 5, points |-> 3, cost |-> <<0,0,0,0,6,0>>],
    [id |-> 58, tier |-> 2, gem |-> 3, points |-> 1, cost |-> <<0,0,2,3,3,0>>],
    [id |-> 59, tier |-> 2, gem |-> 3, points |-> 1, cost |-> <<2,3,0,0,2,0>>],
    [id |-> 60, tier |-> 2, gem |-> 3, points |-> 2, cost |-> <<1,2,0,0,4,0>>],
    [id |-> 61, tier |-> 2, gem |-> 3, points |-> 2, cost |-> <<0,5,3,0,0,0>>],
    [id |-> 62, tier |-> 2, gem |-> 3, points |-> 2, cost |-> <<0,0,5,0,0,0>>],
    [id |-> 63, tier |-> 2, gem |-> 3, points |-> 3, cost |-> <<0,0,6,0,0,0>>],
    [id |-> 64, tier |-> 2, gem |-> 4, points |-> 1, cost |-> <<3,0,0,2,2,0>>],
    [id |-> 65, tier |-> 2, gem |-> 4, points |-> 1, cost |-> <<3,3,0,2,0,0>>],
    [id |-> 66, tier |-> 2, gem |-> 4, points |-> 2, cost |-> <<0,4,2,0,1,0>>],
    [id |-> 67, tier |-> 2, gem |-> 4, points |-> 2, cost |-> <<5,0,0,0,3,0>>],
    [id |-> 68, tier |-> 2, gem |-> 4, points |-> 2, cost |-> <<5,0,0,0,0,0>>],
    [id |-> 69, tier |-> 2, gem |-> 4, points |-> 3, cost |-> <<0,0,0,6,0,0>>],
    [id |-> 70, tier |-> 3, gem |-> 1, points |-> 3, cost |-> <<0,3,5,3,3,0>>],
    [id |-> 71, tier |-> 3, gem |-> 1, points |-> 4, cost |-> <<0,0,0,7,0,0>>],
    [id |-> 72, tier |-> 3, gem |-> 1, points |-> 4, cost |-> <<3,0,3,6,0,0>>],
    [id |-> 73, tier |-> 3, gem |-> 1, points |-> 5, cost |-> <<3,0,0,7,0,0>>],
    [id |-> 74, tier |-> 3, gem |-> 2, points |-> 3, cost |-> <<5,0,3,3,3,0>>],
    [id |-> 75, tier |-> 3, gem |-> 2, points |-> 4, cost |-> <<0,0,0,0,7,0>>],
    [id |-> 76, tier |-> 3, gem |-> 2, points |-> 4, cost |-> <<3,3,0,0,6,0>>],
    [id |-> 77, tier |-> 3, gem |-> 2, points |-> 5, cost |-> <<0,3,0,0,7,0>>],
    [id |-> 78, tier |-> 3, gem |-> 5, points |-> 3, cost |-> <<3,3,3,5,0,0>>],
    [id |-> 79, tier |-> 3, gem |-> 5, points |-> 4, cost |-> <<7,0,0,0,0,0>>],
    [id |-> 80, tier |-> 3, gem |-> 5, points |-> 4, cost |-> <<6,0,0,3,3,0>>],
    [id |-> 81, tier |-> 3, gem |-> 5, points |-> 5, cost |-> <<7,0,0,0,3,0>>],
    [id |-> 82, tier |-> 3, gem |-> 3, points |-> 3, cost |-> <<3,3,0,3,5,0>>],
    [id |-> 83, tier |-> 3, gem |-> 3, points |-> 4, cost |-> <<0,7,0,0,0,0>>],
    [id |-> 84, tier |-> 3, gem |-> 3, points |-> 4, cost |-> <<0,6,3,0,3,0>>],
    [id |-> 85, tier |-> 3, gem |-> 3, points |-> 5, cost |-> <<0,7,3,0,0,0>>],
    [id |-> 86, tier |-> 3, gem |-> 4, points |-> 3, cost |-> <<3,5,3,0,3,0>>],
    [id |-> 87, tier |-> 3, gem |-> 4, points |-> 4, cost |-> <<0,0,7,0,0,0>>],
    [id |-> 88, tier |-> 3, gem |-> 4, points |-> 4, cost |-> <<0,3,6,3,0,0>>],
    [id |-> 89, tier |-> 3, gem |-> 4, points |-> 5, cost |-> <<0,0,7,3,0,0>>]
  >>

Card(id) == CardTable[id + 1]

NumCards == 90

\* Noble::all(): the ten nobles; noble id i is NobleTable[i + 1].
NobleTable ==
  <<
    [points |-> 3, id |-> 0, requirements |-> <<0,0,4,4,0,0>>],
    [points |-> 3, id |-> 1, requirements |-> <<3,0,0,3,3,0>>],
    [points |-> 3, id |-> 2, requirements |-> <<3,0,3,3,0,0>>],
    [points |-> 3, id |-> 3, requirements |-> <<0,4,0,0,4,0>>],
    [points |-> 3, id |-> 4, requirements |-> <<4,0,0,0,4,0>>],
    [points |-> 3, id |-> 5, requirements |-> <<0,4,4,0,0,0>>],
    [points |-> 3, id |-> 6, requirements |-> <<0,3,3,3,0,0>>],
    [points |-> 3, id |-> 7, requirements |-> <<0,3,3,0,3,0>>],
    [points |-> 3, id |-> 8, requirements |-> <<4,0,4,0,0,0>>],
    [points |-> 3, id |-> 9, requirements |-> <<3,3,0,0,3,0>>]
  >>

NumNobles == 10

\* IsAttractedTo as it would be if one colour short were enough.
IsAttractedToOneShort(noble, developments) ==
  \A c \in 1..5 : developments[c] + 1 >= noble.requirements[c]

\* Noble::is_attracted_to(developments)
IsAttractedTo(noble, developments) ==
  \A c \in 1..5 : developments[c] >= noble.requirements[c]

----------------------------------------------------------------------------
(* player.rs *)

\* Player::new()
PlayerNew ==
  [points |-> 0, noble_points |-> 0, reserved |-> <<>>, gems |-> GemsEmpty,
   developments |-> GemsEmpty, blind_reserved |-> <<>>]

\* Vec::contains
Contains(seq, x) == \E i \in 1..Len(seq) : seq[i] = x

\* Vec::retain(|&y| y != x)
Retain(seq, x) == SelectSeq(seq, LAMBDA y : y # x)

\* GemMatchCalls as it would be if gold could not stand in for a colour.
GemMatchCallsNoGold(t) ==
  UNION { IF t[2][color] > 0
          THEN {<<GemsSub(t[1], GemsOne(color)), GemsSub(t[2], GemsOne(color)),
                  GemsAdd(t[3], GemsOne(color))>>}
          ELSE {}
          : color \in {c \in 1..6 : t[1][c] > 0} }

\* One level of gem_match's recursion below the call t = <<cost, gems,
\* running_payment>>: for every colour still owed, pay one unit with a gem
\* of that colour and, separately, with a gold gem.
GemMatchCalls(t) ==
  LET cost == t[1]
      gems == t[2]
      running == t[3]
  IN  UNION { ( IF gems[color] > 0
                THEN {<<GemsSub(cost, GemsOne(color)),
                        GemsSub(gems, GemsOne(color)),
                        GemsAdd(running, GemsOne(color))>>}
                ELSE {} )
              \cup
              ( IF gems[Gold] > 0
                THEN {<<GemsSub(cost, GemsOne(color)),
                        GemsSub(gems, GemsOne(Gold)),
                        GemsAdd(running, GemsOne(Gold))>>}
                ELSE {} )
              : color \in {c \in 1..6 : cost[c] > 0} }

\* The union of gem_match over a set of calls.  A call whose cost is paid
\* returns its running payment, a call with no gems left returns nothing,
\* every other call recurses.  Equal calls are evaluated once, which is what
\* #[cached] does in the source.
RECURSIVE GemMatchAll(_)
GemMatchAll(calls) ==
  IF calls = {} THEN {}
  ELSE LET paid == {t \in calls : GemsTotal(t[1]) = 0}
           open == {t \in calls \ paid : GemsTotal(t[2]) # 0}
       IN  {t[3] : t \in paid} \cup GemMatchAll(UNION {GemMatchCalls(t) : t \in open})

\* gem_match(cost, gems, running_payment)
GemMatch(cost, gems, running_payment) == GemMatchAll({<<cost, gems, running_payment>>})

\* The total_deficit loop of Player::payment_options_for.
TotalDeficit(cost, gems) ==
  LET d(c) == IF cost[c] - gems[c] > 0 THEN cost[c] - gems[c] ELSE 0
  IN  d(1) + d(2) + d(3) + d(4) + d(5) + d(6)

\* Player::payment_options_for(card)
PaymentOptionsFor(player, card) ==
  LET cost == DiscountedWith(card.cost, player.developments)
  IN  IF TotalDeficit(cost, player.gems) > player.gems[Gold] THEN None
      ELSE LET payments == GemMatch(cost, player.gems, GemsEmpty)
           IN  IF payments = {} THEN None ELSE Some(payments)

\* A purchase_card that leaves a reserved card in the buyer's lists.
PurchaseCardKept(player, card, payment) ==
  [player EXCEPT !.gems = GemsSub(player.gems, payment),
                 !.developments = GemsAdd(player.developments, GemsOne(card.gem)),
                 !.points = player.points + card.points]

\* Player::purchase_card(card, payment) without its debug assertions.
PurchaseCard(player, card, payment) ==
  [player EXCEPT !.gems = GemsSub(player.gems, payment),
                 !.developments = GemsAdd(player.developments, GemsOne(card.gem)),
                 !.points = player.points + card.points,
                 !.reserved = Retain(player.reserved, card.id),
                 !.blind_reserved = Retain(player.blind_reserved, card.id)]

\* Player::reserve_card(card_id) without its debug assertion.
ReserveCard(player, card_id) ==
  [player EXCEPT !.reserved = Append(player.reserved, card_id)]

\* BlindReserveCard as it would be if the card went to blind_reserved only.
BlindReserveCardUnlisted(player, card_id) ==
  [player EXCEPT !.blind_reserved = Append(player.blind_reserved, card_id)]

\* Player::blind_reserve_card(card_id) without its debug assertion.
BlindReserveCard(player, card_id) ==
  [player EXCEPT !.reserved = Append(player.reserved, card_id),
                 !.blind_reserved = Append(player.blind_reserved, card_id)]

\* Player::add_noble_points()
AddNoblePoints(player) ==
  [player EXCEPT !.points = player.points + 3,
                 !.noble_points = player.noble_points + 3]

----------------------------------------------------------------------------
(* game_logic/mod.rs *)

PlayerStart == "PlayerStart"
PlayerGemCapExceeded == "PlayerGemCapExceeded"
NobleAction == "NobleAction"
PlayerActionEnd == "PlayerActionEnd"

\* enum Action.  Every action is the record [tag, num, gems]: num is the
\* colour of TakeDouble, the card id of Reserve and Purchase, the tier of
\* ReserveHidden and the noble id of AttractNoble; gems is the colour set of
\* TakeDistinct, the payment of Purchase and the gems of Discard.
Act(tag, num, gems) == [tag |-> tag, num |-> num, gems |-> gems]

TakeDouble(color) == Act("TakeDouble", color, GemsEmpty)
TakeDistinct(colors) == Act("TakeDistinct", 0, colors)
Reserve(card_id) == Act("Reserve", card_id, GemsEmpty)
ReserveHidden(tier) == Act("ReserveHidden", tier, GemsEmpty)
Purchase(card_id, payment) == Act("Purchase", card_id, payment)
Discard(discards) == Act("Discard", 0, discards)
AttractNoble(noble_id) == Act("AttractNoble", noble_id, GemsEmpty)
Pass == Act("Pass", 0, GemsEmpty)
Continue == Act("Continue", 0, GemsEmpty)

\* choose_distinct_gems(gems, running, num_chosen)
RECURSIVE ChooseDistinctGems(_, _, _)
ChooseDistinctGems(gems, running, num_chosen) ==
  IF num_chosen = 0 THEN {running}
  ELSE UNION { ChooseDistinctGems(GemsSub(gems, GemsOne(color)),
                                  GemsAdd(running, GemsOne(color)),
                                  num_chosen - 1)
               : color \in {c \in 1..5 : gems[c] > 0 /\ ~(running[c] > 0)} }

\* choose_gems(gems, running, num_chosen)
RECURSIVE ChooseGems(_, _, _)
ChooseGems(gems, running, num_chosen) ==
  IF num_chosen = 0 THEN {running}
  ELSE UNION { ChooseGems(GemsSub(gems, GemsOne(color)),
                          GemsAdd(running, GemsOne(color)),
                          num_chosen - 1)
               : color \in {c \in 1..6 : gems[c] > 0} }

----------------------------------------------------------------------------
(* game_logic/history.rs *)

\* GameHistory::new()
HistoryNew == <<>>

\* GameHistory::add(player_num, action)
HistoryAdd(history, player_num, action) == Append(history, <<player_num, action>>)

----------------------------------------------------------------------------
(* game_logic/game.rs *)

NumPlayers(g) == Len(g.players)

\* The player whose turn it is: self.players[self.current_player].
CurrentPlayer(g) == g.players[g.current_player + 1]

\* The ids of a sequence as a set.
Range(seq) == {seq[i] : i \in 1..Len(seq)}

\* self.dealt_cards.iter().flatten()
DealtFlat(g) == g.dealt_cards[1] \o g.dealt_cards[2] \o g.dealt_cards[3]

\* Game::has_card(card_id)
HasCard(g, card_id) == \E t \in 1..3 : Contains(g.dealt_cards[t], card_id)

\* Game::new(players, card_lookup) once the shuffles are drawn: decks holds
\* the three shuffled decks and nobles the shuffled noble ids.  Four cards
\* are dealt from the front of every deck and players + 1 nobles are kept.
GameNew(players, decks, nobles) ==
  [players |-> SubSeq(<<PlayerNew, PlayerNew, PlayerNew, PlayerNew>>, 1, players),
   bank |-> GemsStart(players),
   decks |-> <<SubSeq(decks[1], 5, Len(decks[1])), SubSeq(decks[2], 5, Len(decks[2])),
              SubSeq(decks[3], 5, Len(decks[3]))>>,
   current_player |-> 0,
   nobles |-> SubSeq(nobles, 1, players + 1),
   dealt_cards |-> <<SubSeq(decks[1], 1, 4), SubSeq(decks[2], 1, 4), SubSeq(decks[3], 1, 4)>>,
   current_phase |-> PlayerStart,
   history |-> HistoryNew,
   deadlock_count |-> 0]

\* if actions.len() == 0 { Some(vec![Pass]) } else { Some(actions) }
PassIfEmpty(actions) == IF Cardinality(actions) = 0 THEN Some({Pass}) ELSE Some(actions)

\* The NobleAction arm of Game::get_legal_actions.
LegalNobleActions(g) ==
  PassIfEmpty({AttractNoble(id) :
                 id \in {n \in Range(g.nobles) :
                           IsAttractedTo(NobleTable[n + 1], CurrentPlayer(g).developments)}})

\* LegalActionEnd as it would be if the game ended on any seat.
LegalActionEndAnySeat(g) ==
  IF \E i \in 1..NumPlayers(g) : g.players[i].points >= 15
  THEN None
  ELSE Some({Continue})

\* The PlayerActionEnd arm of Game::get_legal_actions.
LegalActionEnd(g) ==
  IF /\ g.current_player = NumPlayers(g) - 1
     /\ \E i \in 1..NumPlayers(g) : g.players[i].points >= 15
  THEN None
  ELSE Some({Continue})

\* LegalDiscards as it would be if the player kept nine gems.
LegalDiscardsToNine(g) ==
  Some({Discard(d) : d \in ChooseGems(CurrentPlayer(g).gems, GemsEmpty,
                                      GemsTotal(CurrentPlayer(g).gems) - 9)})

\* The PlayerGemCapExceeded arm of Game::get_legal_actions.
LegalDiscards(g) ==
  LET player == CurrentPlayer(g)
      discard_num == GemsTotal(player.gems) - 10
  IN  Some({Discard(d) : d \in ChooseGems(player.gems, GemsEmpty, discard_num)})

\* A PlayerStart arm that offers the face-up cards only, and never a draw
\* from a deck.
LegalReservesDealt(g) ==
  IF Len(CurrentPlayer(g).reserved) < 3
  THEN {Reserve(card) : card \in Range(DealtFlat(g))}
  ELSE {}

\* PlayerStart: the Reserve and ReserveHidden actions.
LegalReserves(g) ==
  IF Len(CurrentPlayer(g).reserved) < 3
  THEN {ReserveHidden(tier) : tier \in {t \in 0..2 : Len(g.decks[t + 1]) > 0}}
       \cup {Reserve(card) : card \in Range(DealtFlat(g))}
  ELSE {}

\* PlayerStart: the Purchase actions, over the face-up cards and the
\* current player's reserved cards.
PurchasesWith(card_index, payments) ==
  IF payments.is_some
  THEN {Purchase(card_index, payment) : payment \in payments.value}
  ELSE {}

LegalPurchases(g) ==
  UNION { PurchasesWith(card_index, PaymentOptionsFor(CurrentPlayer(g), Card(card_index)))
          : card_index \in Range(DealtFlat(g) \o CurrentPlayer(g).reserved) }

\* A TakeDistinct arm that always asks for three colours.
LegalTakeDistinctOfThree(g) ==
  {TakeDistinct(GemsToSet(choice)) : choice \in ChooseDistinctGems(g.bank, GemsEmpty, 3)}

\* PlayerStart: the TakeDistinct actions.
LegalTakeDistinct(g) ==
  LET distinct_tokens == GemsDistinct(g.bank)
      take_max == IF distinct_tokens < 3 THEN distinct_tokens ELSE 3
      choices == ChooseDistinctGems(g.bank, GemsEmpty, take_max)
  IN  IF take_max > 0 THEN {TakeDistinct(GemsToSet(choice)) : choice \in choices} ELSE {}

\* A TakeDouble arm that asks for a pile of two, the gems it takes.
LegalTakeDoubleOfTwo(g) == {TakeDouble(color) : color \in {c \in 1..5 : g.bank[c] >= 2}}

\* PlayerStart: the TakeDouble actions.
LegalTakeDouble(g) == {TakeDouble(color) : color \in {c \in 1..5 : g.bank[c] >= 4}}

\* The PlayerStart arm of Game::get_legal_actions.
LegalPlayerStart(g) ==
  PassIfEmpty(LegalReserves(g) \cup LegalPurchases(g)
                \cup LegalTakeDistinct(g) \cup LegalTakeDouble(g))

\* Game::get_legal_actions(): None when the game is deadlocked or over, else
\* the legal actions (here as a set; the order of the source's Vec is
\* modelled separately where it matters).
GetLegalActions(g) ==
  IF g.deadlock_count = 2 * NumPlayers(g) THEN None
  ELSE CASE g.current_phase = NobleAction -> LegalNobleActions(g)
         [] g.current_phase = PlayerActionEnd -> LegalActionEnd(g)
         [] g.current_phase = PlayerGemCapExceeded -> LegalDiscards(g)
         [] g.current_phase = PlayerStart -> LegalPlayerStart(g)

\* Game::game_over(): get_legal_actions().is_none().  get_legal_actions
\* returns None from its deadlock test and from the PlayerActionEnd phase,
\* and Some(..) from every other phase.
GameOver(g) ==
  IF g.deadlock_count = 2 * NumPlayers(g) THEN TRUE
  ELSE IF g.current_phase = PlayerActionEnd THEN ~LegalActionEnd(g).is_some
  ELSE FALSE

\* One iteration of the loop of Game::get_winner, over the player of index i.
WinnerStep(acc, i, player) ==
  IF player.points > acc.max_points
  THEN [max_points |-> player.points,
        min_developments |-> GemsTotal(player.developments),
        winner |-> Some(i)]
  ELSE IF /\ player.points = acc.max_points
          /\ GemsTotal(player.developments) < acc.min_developments
  THEN [acc EXCEPT !.min_developments = GemsTotal(player.developments),
                   !.winner = Some(i)]
  ELSE acc

\* The loop of Game::get_winner over the first k players.  min_developments
\* starts at u32::MAX in the source; no total of developments exceeds the
\* number of cards, so NumCards + 1 compares as u32::MAX does.
RECURSIVE WinnerLoop(_, _)
WinnerLoop(players, k) ==
  IF k = 0
  THEN [max_points |-> 15, min_developments |-> NumCards + 1, winner |-> None]
  ELSE WinnerStep(WinnerLoop(players, k - 1), k - 1, players[k])

\* The two debug assertions at the head of Game::get_winner.
WinnerPreconditions(g) ==
  /\ ~GetLegalActions(g).is_some
  /\ \/ \E i \in 1..NumPlayers(g) : g.players[i].points >= 15
     \/ g.deadlock_count >= 2 * NumPlayers(g)

\* Game::get_winner() in a build with (dbg) or without debug assertions: the
\* value returned and whether the call panicked.
GetWinner(g, dbg) ==
  IF dbg /\ ~WinnerPreconditions(g) THEN [value |-> None, panicked |-> TRUE]
  ELSE [value |-> WinnerLoop(g.players, NumPlayers(g)).winner, panicked |-> FALSE]

\* Game::is_phase_correct_for(action)
IsPhaseCorrectFor(g, action) ==
  CASE g.current_phase = PlayerStart ->
         action.tag \in {"TakeDouble", "TakeDistinct", "Reserve", "ReserveHidden",
                         "Purchase", "Pass"}
    [] g.current_phase = PlayerGemCapExceeded -> action.tag = "Discard"
    [] g.current_phase = NobleAction -> action.tag \in {"AttractNoble", "Pass"}
    [] g.current_phase = PlayerActionEnd -> action.tag = "Continue"

\* A deal_to that deals no card.
DealToNone(g, tier) == g

\* Game::deal_to(tier) for a tier in 0..2: the last card of the deck goes to
\* the end of the tier's face-up row; nothing happens when the deck is empty.
DealTo(g, tier) ==
  LET deck == g.decks[tier + 1]
  IN  IF Len(deck) = 0 THEN g
      ELSE [g EXCEPT !.decks[tier + 1] = SubSeq(deck, 1, Len(deck) - 1),
                     !.dealt_cards[tier + 1] = Append(@, deck[Len(deck)])]

\* The tier index (0-based) Game::remove_card finds for a face-up card.
TierOf(g, card_id) == (CHOOSE t \in 1..3 : Contains(g.dealt_cards[t], card_id)) - 1

\* RemoveCard as it would be if the card stayed in its row.
RemoveCardKept(g, card_id) == g

\* Game::remove_card(card_id) for a face-up card: the row keeps its order.
RemoveCard(g, card_id) ==
  [g EXCEPT !.dealt_cards[TierOf(g, card_id) + 1] = Retain(@, card_id)]

\* The outcome of one arm of play_action's match: the game as the arm left
\* it, the phase the arm evaluates to, and whether the arm panicked (a failed
\* debug_assert!, unwrap, expect or index).
ArmOk(g, next_phase) == [game |-> g, next_phase |-> next_phase, panicked |-> FALSE]

ArmPanic(g) == [game |-> g, next_phase |-> g.current_phase, panicked |-> TRUE]

\* PhaseAfterGain as it would be without the gem cap.
PhaseAfterGainUncapped(g) == NobleAction

\* if player.gems().total() > 10 { PlayerGemCapExceeded } else { NobleAction }
PhaseAfterGain(g) ==
  IF GemsTotal(CurrentPlayer(g).gems) > 10 THEN PlayerGemCapExceeded ELSE NobleAction

\* An arm that ends in that phase choice.
ArmGain(g) == ArmOk(g, PhaseAfterGain(g))

\* TakeGold as it would be if the gold were handed out without leaving the
\* bank.
TakeGoldMinted(g) ==
  IF g.bank[Gold] > 0
  THEN [g EXCEPT !.players[g.current_player + 1].gems = GemsAdd(@, GemsOne(Gold))]
  ELSE g

\* Moves one gold from the bank to the current player when the bank has one.
TakeGold(g) ==
  IF g.bank[Gold] > 0
  THEN [g EXCEPT !.players[g.current_player + 1].gems = GemsAdd(@, GemsOne(Gold)),
                 !.bank = GemsSub(@, GemsOne(Gold))]
  ELSE g

\* play_action, arm TakeDouble(color)
ArmTakeDouble(g, color, dbg) ==
  IF dbg /\ ~(g.bank[color] >= 4) THEN ArmPanic(g)
  ELSE IF dbg /\ color = Gold THEN ArmPanic(g)
  ELSE ArmGain([g EXCEPT !.bank = GemsSub(@, GemsAdd(GemsOne(color), GemsOne(color))),
                         !.players[g.current_player + 1].gems =
                            GemsAdd(@, GemsAdd(GemsOne(color), GemsOne(color)))])

\* play_action, arm TakeDistinct(colors)
ArmTakeDistinct(g, colors, dbg) ==
  IF dbg /\ ~(SetLen(colors) <= 3 /\ SetLen(colors) > 0) THEN ArmPanic(g)
  ELSE IF dbg /\ ~(\A c \in 1..6 : colors[c] > 0 => g.bank[c] >= 1) THEN ArmPanic(g)
  ELSE IF dbg /\ SetLen(colors) < 3 /\ GemsDistinct(g.bank) # SetLen(colors) THEN ArmPanic(g)
  ELSE IF dbg /\ colors[Gold] > 0 THEN ArmPanic(g)
  ELSE ArmGain([g EXCEPT !.players[g.current_player + 1].gems = GemsAdd(@, GemsFromSet(colors)),
                         !.bank = GemsSub(@, GemsFromSet(colors))])

\* play_action, arm Reserve(card_id).  A card that is not face-up fails the
\* debug assertion, and without it the index (5, 5) of remove_card.
ReserveDealt(g, card_id, dbg) ==
  IF dbg /\ ~(Len(CurrentPlayer(g).reserved) < 3) THEN ArmPanic(g)
  ELSE ArmGain(TakeGold([g EXCEPT !.players[g.current_player + 1] = ReserveCard(@, card_id)]))

ArmReserve(g, card_id, dbg) ==
  IF ~HasCard(g, card_id) THEN ArmPanic(g)
  ELSE ReserveDealt(DealTo(RemoveCard(g, card_id), TierOf(g, card_id)), card_id, dbg)

\* play_action, arm ReserveHidden(tier).  The drawn card is dealt to the row
\* and removed from it again, which leaves the row as it was.
LastOf(deck) == deck[Len(deck)]

ReserveDrawn(g, new_card_id, dbg) ==
  IF dbg /\ ~(Len(CurrentPlayer(g).reserved) < 3) THEN ArmPanic(g)
  ELSE ArmGain([g EXCEPT !.players[g.current_player + 1] = BlindReserveCard(@, new_card_id)])

ArmReserveHidden(g, tier, dbg) ==
  IF tier \notin 0..2 THEN ArmPanic(g)
  ELSE IF Len(g.decks[tier + 1]) = 0 THEN ArmPanic(g)
  ELSE ReserveDrawn(TakeGold(RemoveCard(DealTo(g, tier), LastOf(g.decks[tier + 1]))),
                    LastOf(g.decks[tier + 1]), dbg)

\* play_action, arm Purchase((card_id, payment))
IsPaymentOption(payment_options, payment) ==
  payment_options.is_some /\ payment \in payment_options.value

\* if self.has_card(card_id) { remove_card; deal_to(tier) }
RemoveIfDealt(g, card_id) ==
  IF HasCard(g, card_id) THEN DealTo(RemoveCard(g, card_id), TierOf(g, card_id)) ELSE g

PurchaseOf(g, card, payment, dbg) ==
  IF dbg /\ ~IsPaymentOption(PaymentOptionsFor(CurrentPlayer(g), card), payment)
  THEN ArmPanic(g)
  ELSE IF dbg /\ ~(HasCard(g, card.id) \/ Contains(CurrentPlayer(g).reserved, card.id))
  THEN ArmPanic(g)
  ELSE ArmOk(RemoveIfDealt([g EXCEPT !.players[g.current_player + 1] =
                                       PurchaseCard(@, card, payment),
                                     !.bank = GemsAdd(@, payment)],
                           card.id),
             NobleAction)

ArmPurchase(g, card_id, payment, dbg) ==
  IF card_id \notin 0..(NumCards - 1) THEN ArmPanic(g)
  ELSE PurchaseOf(g, Card(card_id), payment, dbg)

\* play_action, arm Discard(discards)
ArmDiscard(g, discards, dbg) ==
  LET player == CurrentPlayer(g)
  IN  IF dbg /\ ~(GemsTotal(player.gems) > 10) THEN ArmPanic(g)
      ELSE IF dbg /\ ~(GemsLegal(discards)
                       /\ GemsTotal(player.gems) - GemsTotal(discards) = 10) THEN ArmPanic(g)
      ELSE IF dbg /\ ~GemsLegal(GemsSub(player.gems, discards)) THEN ArmPanic(g)
      ELSE ArmOk([g EXCEPT !.players[g.current_player + 1].gems = GemsSub(@, discards),
                           !.bank = GemsAdd(@, discards)],
                 NobleAction)

\* play_action, arm AttractNoble(noble_id)
ArmAttractNoble(g, noble_id, dbg) ==
  IF ~Contains(g.nobles, noble_id) THEN ArmPanic(g)
  ELSE IF dbg /\ ~IsAttractedTo(NobleTable[noble_id + 1], CurrentPlayer(g).developments)
  THEN ArmPanic(g)
  ELSE ArmOk([g EXCEPT !.players[g.current_player + 1] = AddNoblePoints(@),
                       !.nobles = Retain(@, noble_id)],
             PlayerActionEnd)

\* A Continue that leaves the seat with the player who just moved.
ArmContinueSameSeat(g) == ArmOk(g, PlayerStart)

\* play_action, arm Continue
ArmContinue(g) ==
  ArmOk([g EXCEPT !.current_player = (g.current_player + 1) % NumPlayers(g)], PlayerStart)

\* play_action, arm Pass.  The debug assertion unwraps get_legal_actions()
\* of the game whose deadlock_count already counts this Pass.
PassIsSoleAction(legal_actions) ==
  /\ legal_actions.is_some
  /\ Cardinality(legal_actions.value) = 1
  /\ Pass \in legal_actions.value

ArmPass(g, dbg) ==
  IF dbg /\ ~PassIsSoleAction(GetLegalActions(g)) THEN ArmPanic(g)
  ELSE CASE g.current_phase = PlayerStart -> ArmOk(g, NobleAction)
         [] g.current_phase = NobleAction -> ArmOk(g, PlayerActionEnd)
         [] OTHER -> ArmPanic(g)

\* The match on the action in play_action.
Arm(g, action, dbg) ==
  CASE action.tag = "TakeDouble" -> ArmTakeDouble(g, action.num, dbg)
    [] action.tag = "TakeDistinct" -> ArmTakeDistinct(g, action.gems, dbg)
    [] action.tag = "Reserve" -> ArmReserve(g, action.num, dbg)
    [] action.tag = "ReserveHidden" -> ArmReserveHidden(g, action.num, dbg)
    [] action.tag = "Purchase" -> ArmPurchase(g, action.num, action.gems, dbg)
    [] action.tag = "Discard" -> ArmDiscard(g, action.gems, dbg)
    [] action.tag = "AttractNoble" -> ArmAttractNoble(g, action.num, dbg)
    [] action.tag = "Continue" -> ArmContinue(g)
    [] action.tag = "Pass" -> ArmPass(g, dbg)

\* The deadlock_count update at the head of play_action.
CountPass(g, action) ==
  CASE action.tag = "Pass" -> [g EXCEPT !.deadlock_count = @ + 1]
    [] action.tag = "Continue" -> g
    [] OTHER -> [g EXCEPT !.deadlock_count = 0]

\* The sum the final assertion of play_action compares with Gems::start(n).
RECURSIVE SumPlayerGems(_, _)
SumPlayerGems(players, i) ==
  IF i = 0 THEN GemsEmpty ELSE GemsAdd(SumPlayerGems(players, i - 1), players[i].gems)

TokensConserved(g) ==
  GemsStart(NumPlayers(g)) = GemsAdd(g.bank, SumPlayerGems(g.players, NumPlayers(g)))

\* Game::play_action(action) in a build with (dbg) or without debug
\* assertions: the game the call leaves behind and whether it panicked.  A
\* panic leaves what was assigned before it.
\* self.history.add(self.current_player, action.clone())
AdvanceHistory(g, action) ==
  [g EXCEPT !.history = HistoryAdd(@, g.current_player, action)]

\* The end of play_action: the conservation assertion, then the phase the
\* arm evaluated to is assigned.
EndOfAction(arm, dbg) ==
  IF arm.panicked THEN [game |-> arm.game, panicked |-> TRUE]
  ELSE IF dbg /\ ~TokensConserved(arm.game) THEN [game |-> arm.game, panicked |-> TRUE]
  ELSE [game |-> [arm.game EXCEPT !.current_phase = arm.next_phase], panicked |-> FALSE]

PlayAction(g, action, dbg) ==
  IF dbg /\ ~IsPhaseCorrectFor(g, action) THEN [game |-> g, panicked |-> TRUE]
  ELSE EndOfAction(Arm(AdvanceHistory(CountPass(g, action), action), action, dbg), dbg)

----------------------------------------------------------------------------
(* The games explored *)

\* The shuffles of one game (the decks and nobles as Game::new shuffled
\* them) and one line of play in it.
Deadlock2Decks ==
  <<<<6, 7, 11, 14, 0, 1, 2, 3, 4, 5, 8, 9, 10, 12, 13, 15, 16, 17, 18, 19, 20, 21, 22, 23, 24, 25, 26, 27, 28, 29, 30, 31, 32, 33, 34, 35, 36, 37, 38, 39>>,
    <<40, 41, 42, 43, 44, 45, 46, 47, 48, 49, 50, 51, 52, 53, 54, 55, 56, 57, 58, 59, 60, 61, 62, 63, 64, 65, 66, 67, 68, 69>>,
    <<70, 71, 72, 73, 74, 75, 76, 77, 78, 79, 80, 81, 82, 83, 84, 85, 86, 87, 88, 89>>>>

Deadlock2Nobles == <<0, 1, 2, 3, 4, 5, 6, 7, 8, 9>>

Deadlock2Line ==
  <<
    TakeDouble(4), Pass, Continue, TakeDistinct(<<0, 1, 1, 1, 0, 0>>), Pass, Continue,
    TakeDistinct(<<0, 1, 1, 1, 0, 0>>), Pass, Continue, TakeDistinct(<<1, 1, 1, 0, 0, 0>>),
    Pass, Continue, TakeDistinct(<<1, 0, 1, 0, 1, 0>>), Pass, Continue,
    TakeDistinct(<<1, 1, 0, 0, 1, 0>>), Pass, Continue, TakeDistinct(<<1, 0, 0, 0, 1, 0>>),
    Pass, Continue, TakeDistinct(<<0, 0, 0, 0, 1, 0>>), Pass, Continue, ReserveHidden(2),
    Discard(<<0, 0, 0, 0, 0, 1>>), Pass, Continue, ReserveHidden(2),
    Discard(<<0, 0, 0, 0, 0, 1>>), Pass, Continue, ReserveHidden(2),
    Discard(<<0, 0, 0, 0, 0, 1>>), Pass, Continue, ReserveHidden(2),
    Discard(<<0, 0, 0, 0, 0, 1>>), Pass, Continue, ReserveHidden(2),
    Discard(<<0, 0, 0, 0, 0, 1>>), Pass, Continue, ReserveHidden(2),
    Discard(<<0, 0, 0, 0, 0, 1>>), Pass, Continue, Pass, Pass, Continue, Pass
  >>

\* The shuffles of one game (the decks and nobles as Game::new shuffled
\* them) and one line of play in it.
Points2Decks ==
  <<<<3, 8, 10, 11, 20, 28, 34, 2, 29, 21, 37, 5, 30, 36, 32, 33, 38, 15, 9, 39, 25, 22, 19, 24, 1, 4, 23, 26, 18, 7, 27, 16, 12, 31, 35, 17, 14, 13, 0, 6>>,
    <<44, 64, 48, 59, 41, 63, 50, 58, 57, 46, 54, 42, 43, 60, 55, 66, 40, 68, 65, 56, 51, 62, 69, 45, 52, 53, 61, 47, 49, 67>>,
    <<79, 78, 75, 83, 85, 72, 84, 88, 80, 87, 76, 74, 86, 89, 82, 70, 71, 81, 73, 77>>>>

Points2Nobles == <<7, 3, 6, 0, 1, 2, 4, 5, 8, 9>>

Points2Line ==
  <<
    TakeDouble(2), Pass, Continue, TakeDouble(3), Pass, Continue,
    TakeDistinct(<<0, 0, 1, 1, 1, 0>>), Pass, Continue, Reserve(3), Pass, Continue,
    TakeDistinct(<<1, 1, 1, 0, 0, 0>>), Pass, Continue, Purchase(6, <<0, 0, 2, 0, 0, 1>>),
    Pass, Continue, Purchase(8, <<1, 0, 1, 1, 1, 0>>), Pass, Continue, TakeDouble(4), Pass,
    Continue, TakeDistinct(<<1, 1, 1, 0, 0, 0>>), Pass, Continue, ReserveHidden(1), Pass,
    Continue, TakeDistinct(<<1, 0, 1, 1, 0, 0>>), Pass, Continue,
    TakeDistinct(<<1, 0, 1, 1, 0, 0>>), Pass, Continue, Purchase(11, <<0, 0, 3, 1, 0, 0>>),
    Pass, Continue, Purchase(3, <<0, 0, 0, 3, 0, 1>>), Pass, Continue,
    TakeDistinct(<<1, 0, 1, 1, 0, 0>>), Pass, Continue, Purchase(14, <<1, 0, 0, 0, 0, 0>>),
    Pass, Continue, TakeDouble(5), Discard(<<0, 0, 0, 0, 1, 0>>), Pass, Continue,
    TakeDistinct(<<0, 0, 1, 1, 1, 0>>), Pass, Continue, Purchase(0, <<0, 0, 1, 1, 1, 0>>),
    Pass, Continue, Purchase(17, <<0, 0, 2, 1, 0, 0>>), Pass, Continue,
    Purchase(31, <<3, 0, 0, 0, 0, 0>>), Pass, Continue, Purchase(12, <<0, 0, 0, 0, 0, 0>>),
    Pass, Continue, TakeDouble(3), Pass, Continue, TakeDistinct(<<1, 0, 0, 1, 1, 0>>), Pass,
    Continue, TakeDistinct(<<1, 0, 0, 1, 1, 0>>), Pass, Continue,
    Purchase(35, <<1, 0, 0, 1, 0, 0>>), Pass, Continue, Purchase(13, <<1, 0, 1, 0, 0, 0>>),
    Pass, Continue, TakeDistinct(<<1, 0, 0, 1, 1, 0>>), Pass, Continue,
    Purchase(83, <<0, 4, 0, 0, 0, 0>>), Pass, Continue, Purchase(64, <<1, 0, 0, 1, 1, 0>>),
    Pass, Continue, Purchase(16, <<0, 0, 0, 1, 0, 0>>), Pass, Continue, TakeDouble(4), Pass,
    Continue, Purchase(18, <<0, 0, 0, 0, 0, 0>>), Pass, Continue,
    Purchase(26, <<0, 0, 0, 0, 0, 0>>), Pass, Continue, Purchase(27, <<0, 0, 0, 0, 0, 0>>),
    Pass, Continue, Reserve(79), Pass, Continue, Purchase(23, <<0, 0, 1, 0, 0, 0>>),
    AttractNoble(7), Continue, Purchase(59, <<0, 0, 0, 0, 1, 1>>), Pass, Continue,
    TakeDistinct(<<0, 1, 1, 1, 0, 0>>), Pass, Continue, Purchase(1, <<0, 0, 0, 0, 0, 0>>),
    Pass, Continue, Purchase(7, <<0, 1, 0, 0, 0, 0>>), Pass, Continue,
    Purchase(10, <<0, 0, 0, 0, 0, 0>>), Pass, Continue, Purchase(19, <<0, 0, 0, 0, 0, 0>>),
    Pass, Continue, Purchase(22, <<0, 0, 0, 0, 0, 0>>), Pass, Continue,
    Purchase(48, <<0, 0, 0, 0, 1, 0>>), AttractNoble(3), Continue,
    Purchase(24, <<0, 0, 0, 0, 0, 0>>), Pass
  >>

\* The shuffles of one game (the decks and nobles as Game::new shuffled
\* them) and one line of play in it.
Tie2Decks ==
  <<<<37, 0, 13, 9, 34, 26, 38, 2, 15, 14, 31, 11, 20, 10, 32, 33, 8, 39, 7, 3, 27, 19, 18, 28, 30, 22, 23, 35, 36, 29, 6, 12, 16, 5, 25, 1, 24, 17, 21, 4>>,
    <<41, 54, 53, 50, 48, 46, 64, 66, 69, 56, 55, 40, 67, 63, 60, 42, 52, 65, 49, 51, 43, 57, 68, 44, 62, 59, 45, 47, 61, 58>>,
    <<74, 75, 72, 88, 84, 86, 76, 78, 81, 89, 77, 71, 82, 80, 85, 87, 73, 70, 83, 79>>>>

Tie2Nobles == <<0, 4, 7, 1, 2, 3, 5, 6, 8, 9>>

Tie2Line ==
  <<
    TakeDistinct(<<1, 1, 0, 0, 1, 0>>), Pass, Continue, TakeDouble(4), Pass, Continue,
    TakeDistinct(<<1, 0, 1, 0, 1, 0>>), Pass, Continue, TakeDistinct(<<0, 0, 1, 1, 1, 0>>),
    Pass, Continue, TakeDistinct(<<1, 1, 1, 0, 0, 0>>), Pass, Continue,
    TakeDistinct(<<0, 1, 0, 1, 1, 0>>), Pass, Continue, Purchase(13, <<2, 0, 2, 0, 0, 0>>),
    Pass, Continue, Purchase(37, <<0, 0, 0, 2, 2, 0>>), Pass, Continue,
    TakeDistinct(<<1, 0, 1, 1, 0, 0>>), Pass, Continue, TakeDistinct(<<0, 1, 1, 0, 1, 0>>),
    Pass, Continue, Purchase(0, <<0, 0, 1, 1, 1, 0>>), Pass, Continue,
    Purchase(4, <<0, 0, 2, 0, 0, 0>>), Pass, Continue, Purchase(21, <<1, 1, 0, 0, 0, 0>>),
    Pass, Continue, Purchase(24, <<0, 1, 0, 0, 1, 0>>), Pass, Continue,
    TakeDistinct(<<0, 0, 1, 1, 1, 0>>), Pass, Continue, TakeDistinct(<<0, 0, 1, 1, 1, 0>>),
    Pass, Continue, Purchase(1, <<0, 1, 1, 1, 0, 0>>), Pass, Continue,
    Purchase(9, <<0, 0, 0, 1, 1, 0>>), Pass, Continue, TakeDistinct(<<1, 0, 1, 1, 0, 0>>),
    Pass, Continue, Purchase(16, <<0, 0, 0, 0, 0, 0>>), Pass, Continue,
    Purchase(12, <<0, 0, 0, 0, 0, 0>>), Pass, Continue, Purchase(17, <<0, 0, 1, 0, 0, 0>>),
    Pass, Continue, Purchase(25, <<0, 0, 0, 1, 0, 0>>), Pass, Continue,
    Purchase(36, <<0, 1, 0, 0, 0, 0>>), Pass, Continue, Purchase(5, <<0, 0, 1, 0, 1, 0>>),
    Pass, Continue, TakeDistinct(<<1, 0, 0, 1, 1, 0>>), Pass, Continue, TakeDouble(3), Pass,
    Continue, Purchase(54, <<1, 0, 0, 2, 0, 0>>), Pass, Continue,
    Purchase(6, <<0, 0, 2, 0, 0, 0>>), Pass, Continue, TakeDistinct(<<0, 0, 1, 1, 1, 0>>),
    Pass, Continue, TakeDistinct(<<1, 0, 0, 1, 1, 0>>), Pass, Continue,
    Purchase(58, <<0, 0, 1, 1, 0, 0>>), Pass, Continue, Purchase(35, <<0, 0, 0, 1, 0, 0>>),
    Pass, Continue, Purchase(30, <<0, 0, 0, 1, 0, 0>>), Pass, Continue,
    Purchase(28, <<0, 0, 0, 0, 1, 0>>), Pass, Continue, TakeDistinct(<<1, 0, 1, 1, 0, 0>>),
    Pass, Continue, Purchase(18, <<0, 0, 0, 0, 0, 0>>), Pass, Continue,
    Purchase(41, <<1, 0, 0, 0, 0, 0>>), Pass, Continue, Purchase(19, <<0, 0, 0, 0, 1, 0>>),
    Pass, Continue, Purchase(23, <<0, 0, 1, 0, 0, 0>>), Pass, Continue,
    TakeDistinct(<<1, 0, 1, 0, 1, 0>>), Pass, Continue, Purchase(3, <<0, 0, 0, 1, 0, 0>>),
    Pass, Continue, Purchase(47, <<0, 0, 1, 0, 0, 0>>), Pass, Continue,
    TakeDistinct(<<0, 0, 1, 1, 1, 0>>), Pass, Continue, Purchase(45, <<2, 0, 0, 0, 0, 0>>),
    Pass, Continue, Purchase(75, <<0, 0, 0, 0, 3, 0>>), Pass, Continue,
    Purchase(79, <<2, 0, 0, 0, 0, 0>>), AttractNoble(4), Continue,
    Purchase(29, <<0, 0, 0, 0, 0, 0>>), Pass, Continue, Purchase(39, <<0, 0, 0, 0, 0, 0>>),
    Pass, Continue, Purchase(8, <<0, 0, 0, 0, 0, 0>>), AttractNoble(7), Continue,
    Purchase(59, <<0, 0, 0, 0, 0, 0>>), Pass, Continue, Purchase(62, <<0, 0, 1, 0, 0, 0>>),
    Pass, Continue, Purchase(44, <<0, 0, 0, 0, 1, 0>>), Pass, Continue,
    Purchase(53, <<0, 0, 0, 1, 0, 0>>), Pass
  >>

\* The shuffles of one game (the decks and nobles as Game::new shuffled
\* them) and one line of play in it.
Opening3Decks ==
  <<<<5, 35, 12, 19, 15, 10, 30, 21, 8, 11, 39, 0, 28, 14, 38, 18, 22, 31, 27, 24, 17, 32, 7, 26, 37, 13, 2, 1, 33, 16, 29, 36, 23, 6, 34, 4, 3, 25, 9, 20>>,
    <<62, 59, 40, 44, 52, 56, 63, 53, 49, 54, 68, 55, 48, 50, 47, 67, 41, 42, 69, 65, 51, 46, 60, 64, 58, 43, 45, 61, 66, 57>>,
    <<81, 82, 77, 74, 70, 87, 73, 89, 75, 72, 76, 78, 83, 71, 88, 79, 84, 80, 85, 86>>>>

Opening3Nobles == <<8, 2, 1, 6, 0, 3, 4, 7, 9, 5>>

Opening3Line ==
  <<
    TakeDistinct(<<0, 1, 1, 0, 1, 0>>), Pass, Continue, TakeDistinct(<<0, 1, 0, 1, 1, 0>>),
    Pass, Continue, Reserve(44), Pass, Continue, ReserveHidden(0), Pass, Continue
  >>

\* The shuffles of one game (the decks and nobles as Game::new shuffled
\* them) and one line of play in it.
Opening4Decks ==
  <<<<18, 7, 23, 16, 22, 21, 6, 10, 24, 26, 33, 15, 37, 8, 13, 0, 27, 36, 34, 1, 31, 17, 2, 4, 9, 14, 3, 5, 25, 19, 20, 30, 38, 11, 12, 32, 39, 29, 35, 28>>,
    <<68, 50, 63, 46, 69, 66, 58, 51, 41, 64, 44, 65, 43, 52, 45, 59, 62, 57, 53, 48, 67, 54, 42, 61, 40, 55, 49, 60, 47, 56>>,
    <<78, 80, 75, 77, 83, 89, 72, 74, 73, 79, 86, 82, 84, 81, 87, 85, 71, 88, 76, 70>>>>

Opening4Nobles == <<7, 8, 9, 4, 6, 0, 5, 3, 2, 1>>

Opening4Line ==
  <<
    TakeDouble(4), Pass, Continue, TakeDouble(4), Pass, Continue,
    TakeDistinct(<<0, 1, 0, 1, 1, 0>>), Pass, Continue, TakeDistinct(<<1, 0, 0, 1, 1, 0>>),
    Pass, Continue
  >>

\* The shuffles of one two-player game and the first turn of the engine's
\* tests: two onyx, no noble, the turn passed on.
Onyx2Decks ==
  <<<<8, 28, 32, 37, 14, 34, 21, 5, 27, 7, 38, 18, 3, 12, 24, 23, 20, 25, 39, 17, 0, 36, 11, 35, 22, 29, 33, 26, 30, 16, 10, 6, 2, 1, 31, 15, 19, 9, 13, 4>>,
    <<60, 67, 46, 58, 50, 48, 62, 65, 64, 63, 43, 44, 56, 68, 52, 42, 59, 61, 55, 49, 69, 45, 47, 51, 57, 66, 41, 53, 40, 54>>,
    <<89, 77, 86, 76, 78, 73, 83, 79, 82, 74, 80, 72, 88, 71, 81, 87, 84, 75, 70, 85>>>>

Onyx2Nobles == <<8, 4, 6, 1, 9, 3, 2, 5, 0, 7>>

Onyx2Line == <<TakeDouble(1), Pass, Continue>>

\* The shuffles of one four-player game and a line of play in which the
\* players draw and buy the cards of the third tier until its deck is empty
\* and its row is short of a card.
Drained4Decks ==
  <<<<16, 4, 8, 29, 38, 9, 3, 12, 14, 15, 22, 28, 24, 11, 7, 13, 34, 19, 27, 5, 25, 0, 23, 1, 31, 20, 21, 18, 2, 32, 39, 10, 30, 6, 17, 37, 35, 36, 33, 26>>,
    <<61, 51, 64, 42, 63, 69, 41, 46, 65, 60, 48, 56, 50, 53, 54, 43, 57, 58, 49, 52, 40, 55, 44, 66, 67, 68, 59, 47, 45, 62>>,
    <<86, 80, 70, 83, 81, 71, 76, 77, 87, 78, 73, 84, 82, 89, 75, 79, 74, 88, 85, 72>>>>

Drained4Nobles == <<8, 9, 6, 4, 0, 1, 2, 3, 5, 7>>

Drained4Line ==
  <<
    ReserveHidden(2), Pass, Continue, ReserveHidden(2), Pass, Continue, ReserveHidden(2), Pass,
    Continue, ReserveHidden(2), Pass, Continue, ReserveHidden(2), Pass, Continue,
    ReserveHidden(2), Pass, Continue, ReserveHidden(2), Pass, Continue, ReserveHidden(2), Pass,
    Continue, ReserveHidden(2), Pass, Continue, ReserveHidden(2), Pass, Continue,
    ReserveHidden(2), Pass, Continue, ReserveHidden(2), Pass, Continue, TakeDouble(1), Pass,
    Continue, TakeDouble(5), Pass, Continue, TakeDouble(2), Pass, Continue, TakeDouble(3),
    Pass, Continue, TakeDouble(1), Pass, Continue, TakeDouble(5), Pass, Continue,
    TakeDouble(2), Pass, Continue, TakeDouble(3), Pass, Continue,
    TakeDistinct(<<1, 0, 1, 0, 1, 0>>), Pass, Continue, TakeDistinct(<<1, 0, 0, 1, 1, 0>>),
    Pass, Continue, TakeDistinct(<<0, 1, 1, 0, 1, 0>>), Pass, Continue,
    TakeDistinct(<<1, 1, 1, 0, 0, 0>>), Pass, Continue, Purchase(79, <<5, 0, 0, 0, 0, 2>>),
    Pass, Continue, TakeDouble(1), Pass, Continue, TakeDistinct(<<1, 1, 0, 1, 0, 0>>),
    Discard(<<0, 0, 0, 0, 1, 0>>), Pass, Continue, TakeDouble(4), Pass, Continue,
    ReserveHidden(2), Pass, Continue, TakeDistinct(<<1, 0, 0, 1, 1, 0>>),
    Discard(<<1, 0, 0, 2, 0, 0>>), Pass, Continue, Purchase(83, <<0, 6, 0, 0, 0, 1>>), Pass,
    Continue, TakeDouble(2), Discard(<<0, 0, 0, 2, 0, 0>>), Pass, Continue, TakeDouble(2),
    Pass, Continue, Purchase(75, <<0, 0, 0, 0, 6, 1>>), Pass, Continue,
    Purchase(4, <<0, 0, 1, 1, 0, 0>>), Pass, Continue, TakeDistinct(<<0, 1, 1, 1, 0, 0>>),
    Discard(<<0, 2, 0, 1, 0, 0>>), Pass, Continue, TakeDistinct(<<1, 1, 0, 0, 1, 0>>), Pass,
    Continue, ReserveHidden(2), Pass, Continue, TakeDouble(4), Pass, Continue,
    Purchase(87, <<0, 0, 6, 0, 0, 1>>), Pass, Continue, TakeDouble(5), Pass, Continue,
    TakeDouble(4), Pass, Continue, TakeDistinct(<<0, 1, 1, 1, 0, 0>>), Pass, Continue,
    ReserveHidden(2), Pass, Continue, TakeDistinct(<<0, 1, 0, 1, 1, 0>>),
    Discard(<<0, 1, 1, 1, 0, 0>>), Pass, Continue, TakeDistinct(<<1, 1, 0, 1, 0, 0>>), Pass,
    Continue, Purchase(16, <<0, 1, 0, 1, 0, 0>>), Pass, Continue,
    TakeDistinct(<<0, 1, 1, 0, 1, 0>>), Pass, Continue, Purchase(77, <<0, 3, 0, 0, 5, 1>>),
    Pass, Continue, Purchase(29, <<0, 1, 0, 2, 0, 0>>), Pass, Continue,
    Purchase(8, <<0, 0, 0, 1, 0, 0>>), Pass, Continue, Purchase(36, <<0, 2, 1, 0, 0, 0>>),
    Pass, Continue, Reserve(86), Pass, Continue
  >>
\* The games the model plays: the player count, the shuffles, and a line of
\* play that exploration follows and departs from.
Deals ==
  <<[n |-> 2, decks |-> Deadlock2Decks, nobles |-> Deadlock2Nobles, line |-> Deadlock2Line],
    [n |-> 2, decks |-> Points2Decks, nobles |-> Points2Nobles, line |-> Points2Line],
    [n |-> 2, decks |-> Tie2Decks, nobles |-> Tie2Nobles, line |-> Tie2Line],
    [n |-> 3, decks |-> Opening3Decks, nobles |-> Opening3Nobles, line |-> Opening3Line],
    [n |-> 4, decks |-> Opening4Decks, nobles |-> Opening4Nobles, line |-> Opening4Line],
    [n |-> 2, decks |-> Onyx2Decks, nobles |-> Onyx2Nobles, line |-> Onyx2Line],
    [n |-> 4, decks |-> Drained4Decks, nobles |-> Drained4Nobles, line |-> Drained4Line]>>

\* How many actions in a row a run may play off the line of its deal.
MaxDepartures == 1

\* Arguments a caller of play_action is tried with besides the legal ones:
\* every tag, with colours, colour sets, cards, tiers, payments, discards and
\* nobles inside and outside what the state offers.
ProbeColourSets ==
  {<<0, 0, 0, 0, 0, 0>>, <<1, 0, 0, 0, 0, 0>>, <<0, 0, 0, 1, 0, 0>>, <<0, 0, 0, 0, 0, 1>>,
   <<1, 1, 0, 0, 0, 0>>, <<0, 0, 1, 0, 1, 0>>, <<0, 1, 0, 0, 0, 1>>,
   <<1, 1, 1, 0, 0, 0>>, <<0, 0, 1, 1, 1, 0>>, <<1, 0, 0, 1, 0, 1>>, <<1, 1, 1, 1, 0, 0>>}

ProbeCards(g) ==
  Range(DealtFlat(g)) \cup Range(CurrentPlayer(g).reserved)
    \cup Range(g.players[((g.current_player + 1) % NumPlayers(g)) + 1].reserved)
    \cup {g.decks[t][Len(g.decks[t])] : t \in {u \in 1..3 : Len(g.decks[u]) > 0}}

OptionsOrNone(options) == IF options.is_some THEN options.value ELSE {}

ProbePaymentsOf(g, card) ==
  OptionsOrNone(PaymentOptionsFor(CurrentPlayer(g), card))
    \cup {GemsEmpty, DiscountedWith(card.cost, CurrentPlayer(g).developments), card.cost}

ProbePayments(g, card_id) == ProbePaymentsOf(g, Card(card_id))

ProbeDiscards(g) ==
  LET gems == CurrentPlayer(g).gems
  IN  {GemsEmpty} \cup {GemsOne(c) : c \in 1..6}
        \cup (IF GemsTotal(gems) > 10
              THEN ChooseGems(gems, GemsEmpty, GemsTotal(gems) - 10)
                     \cup ChooseGems(gems, GemsEmpty, GemsTotal(gems) - 9)
              ELSE {})

Probes(g) ==
  {TakeDouble(c) : c \in 1..6}
    \cup {TakeDistinct(s) : s \in ProbeColourSets}
    \cup {Reserve(c) : c \in ProbeCards(g)}
    \cup {ReserveHidden(t) : t \in 0..3}
    \cup UNION {{Purchase(c, p) : p \in ProbePayments(g, c)} : c \in ProbeCards(g)}
    \cup {Discard(d) : d \in ProbeDiscards(g)}
    \cup {AttractNoble(id) : id \in 0..(NumNobles - 1)}
    \cup {Pass, Continue}

----------------------------------------------------------------------------
(* State *)

VARIABLES
  game,              \* the Game
  debug_assertions,  \* whether the build has debug assertions (cfg!(debug_assertions))
  panicked,          \* a call of play_action panicked: its caller has unwound
  call,              \* the last call of play_action: its argument and whether
                     \* the argument was one of get_legal_actions()
  deal,              \* the index in Deals of the game being played
  departures,        \* actions played in a row off the deal's line
  winner,            \* the last call of get_winner: whether made, and its value
  arena,             \* the Arena besides its game: game_started and the clock
  clients,           \* the registry Clients: client id -> connection (0: absent)
  threads,           \* the connection handlers and client tasks: where each is
  sockets,           \* every connection's websocket: what was sent on either side
  applied,           \* the calls of Arena::play_action made by client tasks
  web,               \* the upstream mirror: its launch, its sink and what was written
  pool,              \* the ArenaPool: its maps and the connections it was handed
  arith              \* an operation on two Gems values and its outcome

vars ==
  <<game, debug_assertions, panicked, call, deal, departures, winner,
    arena, clients, threads, sockets, applied, web, pool, arith>>

arena_vars == <<arena, clients, threads, sockets, applied, web, pool>>

\* No arena serves connections.
NoServer ==
  /\ arena = <<>>
  /\ clients = <<>>
  /\ threads = <<>>
  /\ sockets = <<>>
  /\ applied = <<>>
  /\ web = <<>>

\* No arena is running: the game is driven by direct calls.
NoArena ==
  /\ NoServer
  /\ pool = <<>>

\* No Gems operation is being looked at.
NoArith == arith = <<>>

NoCall == [made |-> FALSE, action |-> Continue, legal |-> TRUE]

NoWinnerCall == [called |-> FALSE, value |-> None]

Init ==
  /\ deal \in 1..Len(Deals)
  /\ debug_assertions \in BOOLEAN
  /\ game = GameNew(Deals[deal].n, Deals[deal].decks, Deals[deal].nobles)
  /\ panicked = FALSE
  /\ call = NoCall
  /\ departures = 0
  /\ winner = NoWinnerCall
  /\ NoArena
  /\ NoArith

\* Whether playing action next stays on the line of the deal.
OnLine(action) ==
  /\ departures = 0
  /\ Len(game.history) < Len(Deals[deal].line)
  /\ Deals[deal].line[Len(game.history) + 1] = action

\* One call game.play_action(action).
Returned(r, action, legal) ==
  /\ game' = r.game
  /\ panicked' = r.panicked
  /\ call' = [made |-> TRUE, action |-> action, legal |-> legal]
  /\ departures' = IF OnLine(action) THEN 0 ELSE departures + 1
  /\ UNCHANGED <<debug_assertions, deal, winner>>
  /\ UNCHANGED <<arena_vars, arith>>

Call(action, legal) == Returned(PlayAction(game, action, debug_assertions), action, legal)

\* A caller that plays one of get_legal_actions(), as Game::rollout and the
\* arena do.
PlayLegal ==
  /\ ~panicked
  /\ call.legal
  /\ \E action \in OptionsOrNone(GetLegalActions(game)) :
       /\ OnLine(action) \/ departures < MaxDepartures
       /\ Call(action, TRUE)

\* A caller that passes play_action an action that is not one of
\* get_legal_actions() (the function is public and takes any Action).
PlayUnchecked ==
  /\ ~panicked
  /\ call.legal
  /\ departures < MaxDepartures
  /\ \E action \in Probes(game) :
       /\ action \notin OptionsOrNone(GetLegalActions(game))
       /\ Call(action, FALSE)

GotWinner(r) ==
  /\ winner' = [called |-> TRUE, value |-> r.value]
  /\ panicked' = r.panicked
  /\ UNCHANGED <<game, debug_assertions, call, deal, departures>>
  /\ UNCHANGED <<arena_vars, arith>>

\* The end of Game::rollout: with no legal action left, self.get_winner().
RolloutEnd ==
  /\ ~panicked
  /\ call.legal
  /\ ~winner.called
  /\ GameOver(game)
  /\ GotWinner(GetWinner(game, debug_assertions))

Next == PlayLegal \/ PlayUnchecked \/ RolloutEnd

Spec == Init /\ [][Next]_vars

----------------------------------------------------------------------------
(* Properties of the rules engine *)

\* The gems of colour c in the hands of the first k players.
RECURSIVE HeldBy(_, _, _)
HeldBy(players, k, c) ==
  IF k = 0 THEN 0 ELSE players[k].gems[c] + HeldBy(players, k - 1, c)

\* C1: in a game advanced only with actions taken from get_legal_actions(),
\* after every action the bank and the players' hands together hold
\* Gems::start(n) in each of the six colours, and no count is negative.
C1_TokenConservation ==
  call.legal =>
    \A c \in 1..6 :
      /\ game.bank[c] + HeldBy(game.players, NumPlayers(game), c)
           = GemsStart(NumPlayers(game))[c]
      /\ game.bank[c] >= 0
      /\ \A i \in 1..NumPlayers(game) : game.players[i].gems[c] >= 0

\* A legal Purchase paid partly in gold has been applied.
C1_PaidWithGold ==
  /\ call.made
  /\ call.legal
  /\ ~panicked
  /\ call.action.tag = "Purchase"
  /\ call.action.gems[Gold] > 0

\* The tags a phase accepts, as the rules state them.
PhaseAccepts(phase, tag) ==
  \/ phase = PlayerStart
       /\ tag \in {"TakeDouble", "TakeDistinct", "Reserve", "ReserveHidden", "Purchase", "Pass"}
  \/ phase = PlayerGemCapExceeded /\ tag = "Discard"
  \/ phase = NobleAction /\ tag \in {"AttractNoble", "Pass"}
  \/ phase = PlayerActionEnd /\ tag = "Continue"

\* The transition table: the phase (and seat) after action was applied to
\* before, giving after.
FollowsTable(before, action, after) ==
  /\ action.tag \in {"TakeDouble", "TakeDistinct", "Reserve", "ReserveHidden"} =>
       after.current_phase =
         IF GemsTotal(after.players[before.current_player + 1].gems) > 10
         THEN PlayerGemCapExceeded
         ELSE NobleAction
  /\ action.tag \in {"Purchase", "Discard"} => after.current_phase = NobleAction
  /\ action.tag = "AttractNoble" => after.current_phase = PlayerActionEnd
  /\ action.tag = "Pass" /\ before.current_phase = PlayerStart =>
       after.current_phase = NobleAction
  /\ action.tag = "Pass" /\ before.current_phase = NobleAction =>
       after.current_phase = PlayerActionEnd
  /\ action.tag = "Continue" =>
       /\ after.current_phase = PlayerStart
       /\ after.current_player = (before.current_player + 1) % NumPlayers(before)
  /\ action.tag # "Continue" => after.current_player = before.current_player

\* A step that is a call of play_action.
IsCall == call' # call \/ game' # game

C3_EnumerationSound ==
  call.made /\ call.legal /\ ~winner.called => ~panicked

\* C4: an action that is not in get_legal_actions() is never applied
\* successfully, here in a build whose play_action makes all of its checks.
C4_EnumerationComplete ==
  debug_assertions /\ call.made /\ ~call.legal => panicked

\* What C8 says of a game g whose get_legal_actions() is legal.
GameOverRule(g, legal) ==
  /\ ~legal.is_some <=>
       \/ g.deadlock_count = 2 * NumPlayers(g)
       \/ /\ g.current_phase = PlayerActionEnd
          /\ g.current_player = NumPlayers(g) - 1
          /\ \E i \in 1..NumPlayers(g) : g.players[i].points >= 15
  /\ g.current_phase = PlayerActionEnd /\ legal.is_some => legal.value = {Continue}

\* C8: get_legal_actions() is None exactly when deadlock_count = 2n or the
\* phase is PlayerActionEnd on the last seat with some player at 15 points
\* or more; every other PlayerActionEnd state offers exactly Continue.
C8_GameOverCondition == GameOverRule(game, GetLegalActions(game))

\* A player on a seat that is not the last has 15 points at the end of the
\* turn, and the game goes on.
C8_FifteenBeforeLastSeat ==
  /\ call.legal
  /\ game.current_phase = PlayerActionEnd
  /\ game.current_player # NumPlayers(game) - 1
  /\ \E i \in 1..NumPlayers(game) : game.players[i].points >= 15
  /\ GetLegalActions(game) = Some({Continue})

\* C10: once 2n Pass actions in a row have been played in a game of legal
\* actions, play_action has returned, deadlock_count is 2n, and neither a
\* legal action nor a winner is left.
C10_DeadlockEndsGame ==
  call.legal /\ game.deadlock_count = 2 * NumPlayers(game) =>
    /\ ~panicked
    /\ ~GetLegalActions(game).is_some
    /\ GetWinner(game, debug_assertions) = [value |-> None, panicked |-> FALSE]

----------------------------------------------------------------------------
(* Game::get_winner over games at the end of the last seat's turn *)

\* The points and the developments the players of those games end with.
WinnerPoints == {14, 15, 16}

WinnerDevelopments ==
  {<<2, 2, 2, 2, 2, 0>>, <<3, 2, 2, 2, 2, 0>>, <<2, 2, 3, 2, 2, 0>>, <<3, 3, 2, 2, 2, 0>>}

\* A player with those points and developments.
PlayerWith(points, developments) ==
  [PlayerNew EXCEPT !.points = points, !.developments = developments]

\* A game of n players in PlayerActionEnd of the last seat.  get_winner and
\* get_legal_actions read the players' points and developments, the phase,
\* the seat and deadlock_count, and nothing else of the game.
EndedGame(n, players) ==
  [GameNew(n, Deals[1].decks, Deals[1].nobles) EXCEPT
     !.players = SubSeq(players, 1, n),
     !.current_phase = PlayerActionEnd,
     !.current_player = n - 1]

InitWinner ==
  /\ debug_assertions \in BOOLEAN
  /\ \E n \in 2..3 :
       \E p1 \in WinnerPoints, p2 \in WinnerPoints, p3 \in WinnerPoints :
         \E d1 \in WinnerDevelopments, d2 \in WinnerDevelopments, d3 \in WinnerDevelopments :
           game = EndedGame(n, <<PlayerWith(p1, d1), PlayerWith(p2, d2), PlayerWith(p3, d3)>>)
  /\ panicked = FALSE
  /\ call = NoCall
  /\ deal = 1
  /\ departures = 0
  /\ winner = NoWinnerCall
  /\ NoArena
  /\ NoArith

NextWinner == RolloutEnd

SpecWinner == InitWinner /\ [][NextWinner]_vars

\* The players of g with the most points.
TopScorers(g) ==
  {i \in 1..NumPlayers(g) :
     \A j \in 1..NumPlayers(g) : g.players[j].points <= g.players[i].points}

\* Those of them with the fewest developments.
TopScorersFewestCards(g) ==
  {i \in TopScorers(g) :
     \A j \in TopScorers(g) :
       GemsTotal(g.players[i].developments) <= GemsTotal(g.players[j].developments)}

\* C9: in a game ended by points get_winner returns the player with the
\* most points, among players tied on points the one with the fewest
\* developments, and None when two or more players are tied on both.
C9_WinnerRule ==
  winner.called /\ ~panicked /\ (\E i \in 1..NumPlayers(game) : game.players[i].points >= 15) =>
    /\ Cardinality(TopScorersFewestCards(game)) = 1 =>
         /\ winner.value.is_some
         /\ winner.value.value + 1 \in TopScorersFewestCards(game)
    /\ Cardinality(TopScorersFewestCards(game)) > 1 => winner.value = None

\* Games in progress: the game of the deal Points2 after the first two
\* actions of its line and after all but the last two, and the game of the
\* deal Deadlock2 after all but the last action of its line.
Points2Early ==
  [history |-> <<<<0, [gems |-> <<0, 0, 0, 0, 0, 0>>, tag |-> "TakeDouble", num |-> 2]>>, <<0,
  [gems |-> <<0, 0, 0, 0, 0, 0>>, tag |-> "Pass", num |-> 0]>>>>, players |-> <<[gems |-> <<0, 2,
  0, 0, 0, 0>>, points |-> 0, developments |-> <<0, 0, 0, 0, 0, 0>>, noble_points |-> 0, reserved
  |-> <<>>, blind_reserved |-> <<>>], [gems |-> <<0, 0, 0, 0, 0, 0>>, points |-> 0, developments
  |-> <<0, 0, 0, 0, 0, 0>>, noble_points |-> 0, reserved |-> <<>>, blind_reserved |-> <<>>]>>,
  current_player |-> 0, dealt_cards |-> <<<<3, 8, 10, 11>>, <<44, 64, 48, 59>>, <<79, 78, 75,
  83>>>>, decks |-> <<<<20, 28, 34, 2, 29, 21, 37, 5, 30, 36, 32, 33, 38, 15, 9, 39, 25, 22, 19,
  24, 1, 4, 23, 26, 18, 7, 27, 16, 12, 31, 35, 17, 14, 13, 0, 6>>, <<41, 63, 50, 58, 57, 46, 54,
  42, 43, 60, 55, 66, 40, 68, 65, 56, 51, 62, 69, 45, 52, 53, 61, 47, 49, 67>>, <<85, 72, 84, 88,
  80, 87, 76, 74, 86, 89, 82, 70, 71, 81, 73, 77>>>>, nobles |-> <<7, 3, 6>>, bank |-> <<4, 2, 4,
  4, 4, 5>>, current_phase |-> "PlayerActionEnd", deadlock_count |-> 1]

Points2Late ==
  [history |-> <<<<0, [gems |-> <<0, 0, 0, 0, 0, 0>>, tag |-> "TakeDouble", num |-> 2]>>, <<0,
  [gems |-> <<0, 0, 0, 0, 0, 0>>, tag |-> "Pass", num |-> 0]>>, <<0, [gems |-> <<0, 0, 0, 0, 0,
  0>>, tag |-> "Continue", num |-> 0]>>, <<1, [gems |-> <<0, 0, 0, 0, 0, 0>>, tag |->
  "TakeDouble", num |-> 3]>>, <<1, [gems |-> <<0, 0, 0, 0, 0, 0>>, tag |-> "Pass", num |-> 0]>>,
  <<1, [gems |-> <<0, 0, 0, 0, 0, 0>>, tag |-> "Continue", num |-> 0]>>, <<0, [gems |-> <<0, 0, 1,
  1, 1, 0>>, tag |-> "TakeDistinct", num |-> 0]>>, <<0, [gems |-> <<0, 0, 0, 0, 0, 0>>, tag |->
  "Pass", num |-> 0]>>, <<0, [gems |-> <<0, 0, 0, 0, 0, 0>>, tag |-> "Continue", num |-> 0]>>,
  <<1, [gems |-> <<0, 0, 0, 0, 0, 0>>, tag |-> "Reserve", num |-> 3]>>, <<1, [gems |-> <<0, 0, 0,
  0, 0, 0>>, tag |-> "Pass", num |-> 0]>>, <<1, [gems |-> <<0, 0, 0, 0, 0, 0>>, tag |->
  "Continue", num |-> 0]>>, <<0, [gems |-> <<1, 1, 1, 0, 0, 0>>, tag |-> "TakeDistinct", num |->
  0]>>, <<0, [gems |-> <<0, 0, 0, 0, 0, 0>>, tag |-> "Pass", num |-> 0]>>, <<0, [gems |-> <<0, 0,
  0, 0, 0, 0>>, tag |-> "Continue", num |-> 0]>>, <<1, [gems |-> <<0, 0, 2, 0, 0, 1>>, tag |->
  "Purchase", num |-> 6]>>, <<1, [gems |-> <<0, 0, 0, 0, 0, 0>>, tag |-> "Pass", num |-> 0]>>,
  <<1, [gems |-> <<0, 0, 0, 0, 0, 0>>, tag |-> "Continue", num |-> 0]>>, <<0, [gems |-> <<1, 0, 1,
  1, 1, 0>>, tag |-> "Purchase", num |-> 8]>>, <<0, [gems |-> <<0, 0, 0, 0, 0, 0>>, tag |->
  "Pass", num |-> 0]>>, <<0, [gems |-> <<0, 0, 0, 0, 0, 0>>, tag |-> "Continue", num |-> 0]>>,
  <<1, [gems |-> <<0, 0, 0, 0, 0, 0>>, tag |-> "TakeDouble", num |-> 4]>>, <<1, [gems |-> <<0, 0,
  0, 0, 0, 0>>, tag |-> "Pass", num |-> 0]>>, <<1, [gems |-> <<0, 0, 0, 0, 0, 0>>, tag |->
  "Continue", num |-> 0]>>, <<0, [gems |-> <<1, 1, 1, 0, 0, 0>>, tag |-> "TakeDistinct", num |->
  0]>>, <<0, [gems |-> <<0, 0, 0, 0, 0, 0>>, tag |-> "Pass", num |-> 0]>>, <<0, [gems |-> <<0, 0,
  0, 0, 0, 0>>, tag |-> "Continue", num |-> 0]>>, <<1, [gems |-> <<0, 0, 0, 0, 0, 0>>, tag |->
  "ReserveHidden", num |-> 1]>>, <<1, [gems |-> <<0, 0, 0, 0, 0, 0>>, tag |-> "Pass", num |->
  0]>>, <<1, [gems |-> <<0, 0, 0, 0, 0, 0>>, tag |-> "Continue", num |-> 0]>>, <<0, [gems |-> <<1,
  0, 1, 1, 0, 0>>, tag |-> "TakeDistinct", num |-> 0]>>, <<0, [gems |-> <<0, 0, 0, 0, 0, 0>>, tag
  |-> "Pass", num |-> 0]>>, <<0, [gems |-> <<0, 0, 0, 0, 0, 0>>, tag |-> "Continue", num |-> 0]>>,
  <<1, [gems |-> <<1, 0, 1, 1, 0, 0>>, tag |-> "TakeDistinct", num |-> 0]>>, <<1, [gems |-> <<0,
  0, 0, 0, 0, 0>>, tag |-> "Pass", num |-> 0]>>, <<1, [gems |-> <<0, 0, 0, 0, 0, 0>>, tag |->
  "Continue", num |-> 0]>>, <<0, [gems |-> <<0, 0, 3, 1, 0, 0>>, tag |-> "Purchase", num |->
  11]>>, <<0, [gems |-> <<0, 0, 0, 0, 0, 0>>, tag |-> "Pass", num |-> 0]>>, <<0, [gems |-> <<0, 0,
  0, 0, 0, 0>>, tag |-> "Continue", num |-> 0]>>, <<1, [gems |-> <<0, 0, 0, 3, 0, 1>>, tag |->
  "Purchase", num |-> 3]>>, <<1, [gems |-> <<0, 0, 0, 0, 0, 0>>, tag |-> "Pass", num |-> 0]>>,
  <<1, [gems |-> <<0, 0, 0, 0, 0, 0>>, tag |-> "Continue", num |-> 0]>>, <<0, [gems |-> <<1, 0, 1,
  1, 0, 0>>, tag |-> "TakeDistinct", num |-> 0]>>, <<0, [gems |-> <<0, 0, 0, 0, 0, 0>>, tag |->
  "Pass", num |-> 0]>>, <<0, [gems |-> <<0, 0, 0, 0, 0, 0>>, tag |-> "Continue", num |-> 0]>>,
  <<1, [gems |-> <<1, 0, 0, 0, 0, 0>>, tag |-> "Purchase", num |-> 14]>>, <<1, [gems |-> <<0, 0,
  0, 0, 0, 0>>, tag |-> "Pass", num |-> 0]>>, <<1, [gems |-> <<0, 0, 0, 0, 0, 0>>, tag |->
  "Continue", num |-> 0]>>, <<0, [gems |-> <<0, 0, 0, 0, 0, 0>>, tag |-> "TakeDouble", num |->
  5]>>, <<0, [gems |-> <<0, 0, 0, 0, 1, 0>>, tag |-> "Discard", num |-> 0]>>, <<0, [gems |-> <<0,
  0, 0, 0, 0, 0>>, tag |-> "Pass", num |-> 0]>>, <<0, [gems |-> <<0, 0, 0, 0, 0, 0>>, tag |->
  "Continue", num |-> 0]>>, <<1, [gems |-> <<0, 0, 1, 1, 1, 0>>, tag |-> "TakeDistinct", num |->
  0]>>, <<1, [gems |-> <<0, 0, 0, 0, 0, 0>>, tag |-> "Pass", num |-> 0]>>, <<1, [gems |-> <<0, 0,
  0, 0, 0, 0>>, tag |-> "Continue", num |-> 0]>>, <<0, [gems |-> <<0, 0, 1, 1, 1, 0>>, tag |->
  "Purchase", num |-> 0]>>, <<0, [gems |-> <<0, 0, 0, 0, 0, 0>>, tag |-> "Pass", num |-> 0]>>,
  <<0, [gems |-> <<0, 0, 0, 0, 0, 0>>, tag |-> "Continue", num |-> 0]>>, <<1, [gems |-> <<0, 0, 2,
  1, 0, 0>>, tag |-> "Purchase", num |-> 17]>>, <<1, [gems |-> <<0, 0, 0, 0, 0, 0>>, tag |->
  "Pass", num |-> 0]>>, <<1, [gems |-> <<0, 0, 0, 0, 0, 0>>, tag |-> "Continue", num |-> 0]>>,
  <<0, [gems |-> <<3, 0, 0, 0, 0, 0>>, tag |-> "Purchase", num |-> 31]>>, <<0, [gems |-> <<0, 0,
  0, 0, 0, 0>>, tag |-> "Pass", num |-> 0]>>, <<0, [gems |-> <<0, 0, 0, 0, 0, 0>>, tag |->
  "Continue", num |-> 0]>>, <<1, [gems |-> <<0, 0, 0, 0, 0, 0>>, tag |-> "Purchase", num |->
  12]>>, <<1, [gems |-> <<0, 0, 0, 0, 0, 0>>, tag |-> "Pass", num |-> 0]>>, <<1, [gems |-> <<0, 0,
  0, 0, 0, 0>>, tag |-> "Continue", num |-> 0]>>, <<0, [gems |-> <<0, 0, 0, 0, 0, 0>>, tag |->
  "TakeDouble", num |-> 3]>>, <<0, [gems |-> <<0, 0, 0, 0, 0, 0>>, tag |-> "Pass", num |-> 0]>>,
  <<0, [gems |-> <<0, 0, 0, 0, 0, 0>>, tag |-> "Continue", num |-> 0]>>, <<1, [gems |-> <<1, 0, 0,
  1, 1, 0>>, tag |-> "TakeDistinct", num |-> 0]>>, <<1, [gems |-> <<0, 0, 0, 0, 0, 0>>, tag |->
  "Pass", num |-> 0]>>, <<1, [gems |-> <<0, 0, 0, 0, 0, 0>>, tag |-> "Continue", num |-> 0]>>,
  <<0, [gems |-> <<1, 0, 0, 1, 1, 0>>, tag |-> "TakeDistinct", num |-> 0]>>, <<0, [gems |-> <<0,
  0, 0, 0, 0, 0>>, tag |-> "Pass", num |-> 0]>>, <<0, [gems |-> <<0, 0, 0, 0, 0, 0>>, tag |->
  "Continue", num |-> 0]>>, <<1, [gems |-> <<1, 0, 0, 1, 0, 0>>, tag |-> "Purchase", num |->
  35]>>, <<1, [gems |-> <<0, 0, 0, 0, 0, 0>>, tag |-> "Pass", num |-> 0]>>, <<1, [gems |-> <<0, 0,
  0, 0, 0, 0>>, tag |-> "Continue", num |-> 0]>>, <<0, [gems |-> <<1, 0, 1, 0, 0, 0>>, tag |->
  "Purchase", num |-> 13]>>, <<0, [gems |-> <<0, 0, 0, 0, 0, 0>>, tag |-> "Pass", num |-> 0]>>,
  <<0, [gems |-> <<0, 0, 0, 0, 0, 0>>, tag |-> "Continue", num |-> 0]>>, <<1, [gems |-> <<1, 0, 0,
  1, 1, 0>>, tag |-> "TakeDistinct", num |-> 0]>>, <<1, [gems |-> <<0, 0, 0, 0, 0, 0>>, tag |->
  "Pass", num |-> 0]>>, <<1, [gems |-> <<0, 0, 0, 0, 0, 0>>, tag |-> "Continue", num |-> 0]>>,
  <<0, [gems |-> <<0, 4, 0, 0, 0, 0>>, tag |-> "Purchase", num |-> 83]>>, <<0, [gems |-> <<0, 0,
  0, 0, 0, 0>>, tag |-> "Pass", num |-> 0]>>, <<0, [gems |-> <<0, 0, 0, 0, 0, 0>>, tag |->
  "Continue", num |-> 0]>>, <<1, [gems |-> <<1, 0, 0, 1, 1, 0>>, tag |-> "Purchase", num |->
  64]>>, <<1, [gems |-> <<0, 0, 0, 0, 0, 0>>, tag |-> "Pass", num |-> 0]>>, <<1, [gems |-> <<0, 0,
  0, 0, 0, 0>>, tag |-> "Continue", num |-> 0]>>, <<0, [gems |-> <<0, 0, 0, 1, 0, 0>>, tag |->
  "Purchase", num |-> 16]>>, <<0, [gems |-> <<0, 0, 0, 0, 0, 0>>, tag |-> "Pass", num |-> 0]>>,
  <<0, [gems |-> <<0, 0, 0, 0, 0, 0>>, tag |-> "Continue", num |-> 0]>>, <<1, [gems |-> <<0, 0, 0,
  0, 0, 0>>, tag |-> "TakeDouble", num |-> 4]>>, <<1, [gems |-> <<0, 0, 0, 0, 0, 0>>, tag |->
  "Pass", num |-> 0]>>, <<1, [gems |-> <<0, 0, 0, 0, 0, 0>>, tag |-> "Continue", num |-> 0]>>,
  <<0, [gems |-> <<0, 0, 0, 0, 0, 0>>, tag |-> "Purchase", num |-> 18]>>, <<0, [gems |-> <<0, 0,
  0, 0, 0, 0>>, tag |-> "Pass", num |-> 0]>>, <<0, [gems |-> <<0, 0, 0, 0, 0, 0>>, tag |->
  "Continue", num |-> 0]>>, <<1, [gems |-> <<0, 0, 0, 0, 0, 0>>, tag |-> "Purchase", num |->
  26]>>, <<1, [gems |-> <<0, 0, 0, 0, 0, 0>>, tag |-> "Pass", num |-> 0]>>, <<1, [gems |-> <<0, 0,
  0, 0, 0, 0>>, tag |-> "Continue", num |-> 0]>>, <<0, [gems |-> <<0, 0, 0, 0, 0, 0>>, tag |->
  "Purchase", num |-> 27]>>, <<0, [gems |-> <<0, 0, 0, 0, 0, 0>>, tag |-> "Pass", num |-> 0]>>,
  <<0, [gems |-> <<0, 0, 0, 0, 0, 0>>, tag |-> "Continue", num |-> 0]>>, <<1, [gems |-> <<0, 0, 0,
  0, 0, 0>>, tag |-> "Reserve", num |-> 79]>>, <<1, [gems |-> <<0, 0, 0, 0, 0, 0>>, tag |->
  "Pass", num |-> 0]>>, <<1, [gems |-> <<0, 0, 0, 0, 0, 0>>, tag |-> "Continue", num |-> 0]>>,
  <<0, [gems |-> <<0, 0, 1, 0, 0, 0>>, tag |-> "Purchase", num |-> 23]>>, <<0, [gems |-> <<0, 0,
  0, 0, 0, 0>>, tag |-> "AttractNoble", num |-> 7]>>, <<0, [gems |-> <<0, 0, 0, 0, 0, 0>>, tag |->
  "Continue", num |-> 0]>>, <<1, [gems |-> <<0, 0, 0, 0, 1, 1>>, tag |-> "Purchase", num |->
  59]>>, <<1, [gems |-> <<0, 0, 0, 0, 0, 0>>, tag |-> "Pass", num |-> 0]>>, <<1, [gems |-> <<0, 0,
  0, 0, 0, 0>>, tag |-> "Continue", num |-> 0]>>, <<0, [gems |-> <<0, 1, 1, 1, 0, 0>>, tag |->
  "TakeDistinct", num |-> 0]>>, <<0, [gems |-> <<0, 0, 0, 0, 0, 0>>, tag |-> "Pass", num |-> 0]>>,
  <<0, [gems |-> <<0, 0, 0, 0, 0, 0>>, tag |-> "Continue", num |-> 0]>>, <<1, [gems |-> <<0, 0, 0,
  0, 0, 0>>, tag |-> "Purchase", num |-> 1]>>, <<1, [gems |-> <<0, 0, 0, 0, 0, 0>>, tag |->
  "Pass", num |-> 0]>>, <<1, [gems |-> <<0, 0, 0, 0, 0, 0>>, tag |-> "Continue", num |-> 0]>>,
  <<0, [gems |-> <<0, 1, 0, 0, 0, 0>>, tag |-> "Purchase", num |-> 7]>>, <<0, [gems |-> <<0, 0, 0,
  0, 0, 0>>, tag |-> "Pass", num |-> 0]>>, <<0, [gems |-> <<0, 0, 0, 0, 0, 0>>, tag |->
  "Continue", num |-> 0]>>, <<1, [gems |-> <<0, 0, 0, 0, 0, 0>>, tag |-> "Purchase", num |->
  10]>>, <<1, [gems |-> <<0, 0, 0, 0, 0, 0>>, tag |-> "Pass", num |-> 0]>>, <<1, [gems |-> <<0, 0,
  0, 0, 0, 0>>, tag |-> "Continue", num |-> 0]>>, <<0, [gems |-> <<0, 0, 0, 0, 0, 0>>, tag |->
  "Purchase", num |-> 19]>>, <<0, [gems |-> <<0, 0, 0, 0, 0, 0>>, tag |-> "Pass", num |-> 0]>>,
  <<0, [gems |-> <<0, 0, 0, 0, 0, 0>>, tag |-> "Continue", num |-> 0]>>, <<1, [gems |-> <<0, 0, 0,
  0, 0, 0>>, tag |-> "Purchase", num |-> 22]>>, <<1, [gems |-> <<0, 0, 0, 0, 0, 0>>, tag |->
  "Pass", num |-> 0]>>, <<1, [gems |-> <<0, 0, 0, 0, 0, 0>>, tag |-> "Continue", num |-> 0]>>,
  <<0, [gems |-> <<0, 0, 0, 0, 1, 0>>, tag |-> "Purchase", num |-> 48]>>, <<0, [gems |-> <<0, 0,
  0, 0, 0, 0>>, tag |-> "AttractNoble", num |-> 3]>>, <<0, [gems |-> <<0, 0, 0, 0, 0, 0>>, tag |->
  "Continue", num |-> 0]>>>>, players |-> <<[gems |-> <<0, 0, 1, 1, 0, 0>>, points |-> 15,
  developments |-> <<2, 4, 3, 0, 4, 0>>, noble_points |-> 6, reserved |-> <<>>, blind_reserved |->
  <<>>], [gems |-> <<0, 0, 0, 2, 1, 0>>, points |-> 2, developments |-> <<3, 3, 2, 2, 2, 0>>,
  noble_points |-> 0, reserved |-> <<67, 79>>, blind_reserved |-> <<67>>]>>, current_player |-> 1,
  dealt_cards |-> <<<<4, 24, 25, 39>>, <<44, 49, 47, 61>>, <<78, 75, 77, 73>>>>, decks |-> <<<<20,
  28, 34, 2, 29, 21, 37, 5, 30, 36, 32, 33, 38, 15, 9>>, <<41, 63, 50, 58, 57, 46, 54, 42, 43, 60,
  55, 66, 40, 68, 65, 56, 51, 62, 69, 45, 52, 53>>, <<85, 72, 84, 88, 80, 87, 76, 74, 86, 89, 82,
  70, 71, 81>>>>, nobles |-> <<6>>, bank |-> <<4, 4, 3, 1, 3, 5>>, current_phase |->
  "PlayerStart", deadlock_count |-> 0]

Deadlock2Late ==
  [history |-> <<<<0, [gems |-> <<0, 0, 0, 0, 0, 0>>, tag |-> "TakeDouble", num |-> 4]>>, <<0,
  [gems |-> <<0, 0, 0, 0, 0, 0>>, tag |-> "Pass", num |-> 0]>>, <<0, [gems |-> <<0, 0, 0, 0, 0,
  0>>, tag |-> "Continue", num |-> 0]>>, <<1, [gems |-> <<0, 1, 1, 1, 0, 0>>, tag |->
  "TakeDistinct", num |-> 0]>>, <<1, [gems |-> <<0, 0, 0, 0, 0, 0>>, tag |-> "Pass", num |-> 0]>>,
  <<1, [gems |-> <<0, 0, 0, 0, 0, 0>>, tag |-> "Continue", num |-> 0]>>, <<0, [gems |-> <<0, 1, 1,
  1, 0, 0>>, tag |-> "TakeDistinct", num |-> 0]>>, <<0, [gems |-> <<0, 0, 0, 0, 0, 0>>, tag |->
  "Pass", num |-> 0]>>, <<0, [gems |-> <<0, 0, 0, 0, 0, 0>>, tag |-> "Continue", num |-> 0]>>,
  <<1, [gems |-> <<1, 1, 1, 0, 0, 0>>, tag |-> "TakeDistinct", num |-> 0]>>, <<1, [gems |-> <<0,
  0, 0, 0, 0, 0>>, tag |-> "Pass", num |-> 0]>>, <<1, [gems |-> <<0, 0, 0, 0, 0, 0>>, tag |->
  "Continue", num |-> 0]>>, <<0, [gems |-> <<1, 0, 1, 0, 1, 0>>, tag |-> "TakeDistinct", num |->
  0]>>, <<0, [gems |-> <<0, 0, 0, 0, 0, 0>>, tag |-> "Pass", num |-> 0]>>, <<0, [gems |-> <<0, 0,
  0, 0, 0, 0>>, tag |-> "Continue", num |-> 0]>>, <<1, [gems |-> <<1, 1, 0, 0, 1, 0>>, tag |->
  "TakeDistinct", num |-> 0]>>, <<1, [gems |-> <<0, 0, 0, 0, 0, 0>>, tag |-> "Pass", num |-> 0]>>,
  <<1, [gems |-> <<0, 0, 0, 0, 0, 0>>, tag |-> "Continue", num |-> 0]>>, <<0, [gems |-> <<1, 0, 0,
  0, 1, 0>>, tag |-> "TakeDistinct", num |-> 0]>>, <<0, [gems |-> <<0, 0, 0, 0, 0, 0>>, tag |->
  "Pass", num |-> 0]>>, <<0, [gems |-> <<0, 0, 0, 0, 0, 0>>, tag |-> "Continue", num |-> 0]>>,
  <<1, [gems |-> <<0, 0, 0, 0, 1, 0>>, tag |-> "TakeDistinct", num |-> 0]>>, <<1, [gems |-> <<0,
  0, 0, 0, 0, 0>>, tag |-> "Pass", num |-> 0]>>, <<1, [gems |-> <<0, 0, 0, 0, 0, 0>>, tag |->
  "Continue", num |-> 0]>>, <<0, [gems |-> <<0, 0, 0, 0, 0, 0>>, tag |-> "ReserveHidden", num |->
  2]>>, <<0, [gems |-> <<0, 0, 0, 0, 0, 1>>, tag |-> "Discard", num |-> 0]>>, <<0, [gems |-> <<0,
  0, 0, 0, 0, 0>>, tag |-> "Pass", num |-> 0]>>, <<0, [gems |-> <<0, 0, 0, 0, 0, 0>>, tag |->
  "Continue", num |-> 0]>>, <<1, [gems |-> <<0, 0, 0, 0, 0, 0>>, tag |-> "ReserveHidden", num |->
  2]>>, <<1, [gems |-> <<0, 0, 0, 0, 0, 1>>, tag |-> "Discard", num |-> 0]>>, <<1, [gems |-> <<0,
  0, 0, 0, 0, 0>>, tag |-> "Pass", num |-> 0]>>, <<1, [gems |-> <<0, 0, 0, 0, 0, 0>>, tag |->
  "Continue", num |-> 0]>>, <<0, [gems |-> <<0, 0, 0, 0, 0, 0>>, tag |-> "ReserveHidden", num |->
  2]>>, <<0, [gems |-> <<0, 0, 0, 0, 0, 1>>, tag |-> "Discard", num |-> 0]>>, <<0, [gems |-> <<0,
  0, 0, 0, 0, 0>>, tag |-> "Pass", num |-> 0]>>, <<0, [gems |-> <<0, 0, 0, 0, 0, 0>>, tag |->
  "Continue", num |-> 0]>>, <<1, [gems |-> <<0, 0, 0, 0, 0, 0>>, tag |-> "ReserveHidden", num |->
  2]>>, <<1, [gems |-> <<0, 0, 0, 0, 0, 1>>, tag |-> "Discard", num |-> 0]>>, <<1, [gems |-> <<0,
  0, 0, 0, 0, 0>>, tag |-> "Pass", num |-> 0]>>, <<1, [gems |-> <<0, 0, 0, 0, 0, 0>>, tag |->
  "Continue", num |-> 0]>>, <<0, [gems |-> <<0, 0, 0, 0, 0, 0>>, tag |-> "ReserveHidden", num |->
  2]>>, <<0, [gems |-> <<0, 0, 0, 0, 0, 1>>, tag |-> "Discard", num |-> 0]>>, <<0, [gems |-> <<0,
  0, 0, 0, 0, 0>>, tag |-> "Pass", num |-> 0]>>, <<0, [gems |-> <<0, 0, 0, 0, 0, 0>>, tag |->
  "Continue", num |-> 0]>>, <<1, [gems |-> <<0, 0, 0, 0, 0, 0>>, tag |-> "ReserveHidden", num |->
  2]>>, <<1, [gems |-> <<0, 0, 0, 0, 0, 1>>, tag |-> "Discard", num |-> 0]>>, <<1, [gems |-> <<0,
  0, 0, 0, 0, 0>>, tag |-> "Pass", num |-> 0]>>, <<1, [gems |-> <<0, 0, 0, 0, 0, 0>>, tag |->
  "Continue", num |-> 0]>>, <<0, [gems |-> <<0, 0, 0, 0, 0, 0>>, tag |-> "Pass", num |-> 0]>>,
  <<0, [gems |-> <<0, 0, 0, 0, 0, 0>>, tag |-> "Pass", num |-> 0]>>, <<0, [gems |-> <<0, 0, 0, 0,
  0, 0>>, tag |-> "Continue", num |-> 0]>>>>, players |-> <<[gems |-> <<2, 1, 2, 3, 2, 0>>, points
  |-> 0, developments |-> <<0, 0, 0, 0, 0, 0>>, noble_points |-> 0, reserved |-> <<89, 87, 85>>,
  blind_reserved |-> <<89, 87, 85>>], [gems |-> <<2, 3, 2, 1, 2, 0>>, points |-> 0, developments
  |-> <<0, 0, 0, 0, 0, 0>>, noble_points |-> 0, reserved |-> <<88, 86, 84>>, blind_reserved |->
  <<88, 86, 84>>]>>, current_player |-> 1, dealt_cards |-> <<<<6, 7, 11, 14>>, <<40, 41, 42, 43>>,
  <<70, 71, 72, 73>>>>, decks |-> <<<<0, 1, 2, 3, 4, 5, 8, 9, 10, 12, 13, 15, 16, 17, 18, 19, 20,
  21, 22, 23, 24, 25, 26, 27, 28, 29, 30, 31, 32, 33, 34, 35, 36, 37, 38, 39>>, <<44, 45, 46, 47,
  48, 49, 50, 51, 52, 53, 54, 55, 56, 57, 58, 59, 60, 61, 62, 63, 64, 65, 66, 67, 68, 69>>, <<74,
  75, 76, 77, 78, 79, 80, 81, 82, 83>>>>, nobles |-> <<0, 1, 2>>, bank |-> <<0, 0, 0, 0, 0, 5>>,
  current_phase |-> "PlayerStart", deadlock_count |-> 3]

----------------------------------------------------------------------------
(* The arena: one match served to its clients over websockets *)

\* How many websocket connections a run opens.
MaxConnections == 3

\* How many connections are being handled at a time.
MaxConcurrent == 2

\* How many messages the clients of a run send in total.
MaxMessages == 2

\* How many actions the client tasks of a run apply before they stop taking
\* turns.
MaxMoves == 2

\* The time every player has at the start, in ticks.
InitialTime == 1

\* The increments arenas are built with.
Increments == {0, 1}

\* The increment of the arenas whose lobby is explored.
LobbyIncrement == 1

\* How many ticks a run lasts.
MaxTime == 2

\* Arena::allowed_clients(): the client ids in seating order, the i-th one
\* playing as player i.  Client ids are numbered from 1 here.
AllowedClients(n) == [i \in 1..n |-> i]

\* The client ids connections arrive with: the allowed ones and one other.
ConnectingIds(n) == 1..(n + 1)

\* The actions clients submit; whether one is legal depends on the state of
\* the game when it is validated.
ClientActions == {TakeDouble(Onyx), Pass, Continue}

ClientMessageAction(action) == [kind |-> "action", action |-> action]

\* What arrives on a game socket: an Action, a Log, a text that is no
\* ClientMessage, or a websocket error.
ClientMessages ==
  {ClientMessageAction(action) : action \in ClientActions}
    \cup {[kind |-> k, action |-> Continue] : k \in {"log", "garbage", "error"}}

(* Clock.  Time is counted in ticks: now is SystemTime::now(), and
   current_timestamp.elapsed() is now - current_timestamp. *)

\* Clock::new
ClockNew(n, initial_time, increment) ==
  [total_time |-> [i \in 1..n |-> initial_time],
   increment |-> increment,
   current_timestamp |-> 0,
   current_player |-> None,
   timed_out |-> [i \in 1..n |-> FALSE]]

\* Clock::next_player
ClockNextPlayer(clock) ==
  IF ~clock.current_player.is_some
  THEN [clock EXCEPT !.current_player = Some(0)]
  ELSE [clock EXCEPT !.current_player = Some((@.value + 1) % Len(clock.total_time))]

\* Clock::start
ClockStart(clock, now) ==
  LET current_player == IF clock.current_player.is_some THEN clock.current_player.value ELSE 0
  IN  [clock EXCEPT !.current_player = Some(current_player),
                    !.current_timestamp = now,
                    !.total_time[current_player + 1] = @ + clock.increment]

\* Clock::time_remaining
ClockTimeRemaining(clock, now) ==
  IF ~clock.current_player.is_some THEN 0
  ELSE IF clock.timed_out[clock.current_player.value + 1] THEN 0
  ELSE IF clock.total_time[clock.current_player.value + 1] < now - clock.current_timestamp THEN 0
  ELSE clock.total_time[clock.current_player.value + 1] - (now - clock.current_timestamp)

\* Clock::end.  A Duration is never below zero, which leaves two arms.
ClockEnd(clock, now) ==
  IF ~clock.current_player.is_some THEN clock
  ELSE IF clock.total_time[clock.current_player.value + 1] < now - clock.current_timestamp
  THEN [clock EXCEPT !.timed_out[clock.current_player.value + 1] = TRUE,
                     !.total_time[clock.current_player.value + 1] = 0]
  ELSE [clock EXCEPT !.total_time[clock.current_player.value + 1] =
                        @ - (now - clock.current_timestamp)]

(* Arena *)

\* ArenaBuilder::build; now is the time of day.
ArenaNew(n, initial_time, increment) ==
  [game_started |-> FALSE, clock |-> ClockNew(n, initial_time, increment), now |-> 0]

\* Arena::start_game
ArenaStartGame(a) == [a EXCEPT !.game_started = TRUE, !.clock = ClockStart(@, a.now)]

\* A current_player_num that does not look at game_started.
CurrentPlayerNumUnstarted(a, g) == Some(g.current_player)

\* Arena::current_player_num
CurrentPlayerNum(a, g) == IF a.game_started THEN Some(g.current_player) ELSE None

\* Arena::current_player_id(): the client seated at the current player.
CurrentPlayerId(a, g) ==
  IF CurrentPlayerNum(a, g).is_some
  THEN Some(AllowedClients(NumPlayers(g))[g.current_player + 1])
  ELSE None

\* current_player_id() == Some(client_id)
IsTurnOf(a, g, client_id) ==
  CurrentPlayerId(a, g).is_some /\ CurrentPlayerId(a, g).value = client_id

\* Arena::is_timed_out
IsTimedOut(a) == ClockTimeRemaining(a.clock, a.now) <= 0

\* Arena::time_remaining
TimeRemaining(a) == ClockTimeRemaining(a.clock, a.now)

\* history.num_actions(): how many actions the game has had applied, the
\* length of its history.
NumActions(g) == Len(g.history)

\* Arena::private_game_state(): of the ClientInfo only the number of actions
\* of its history is kept.
PrivateGameState(g) == NumActions(g)

\* Arena::is_game_over
IsGameOver(g) == GameOver(g)

\* A Continue that starts the clock before it moves to the next player.
ClockContinueStartFirst(clock, now) == ClockNextPlayer(ClockStart(ClockEnd(clock, now), now))

\* self.clock.end(); self.clock.next_player(); self.clock.start()
ClockContinue(clock, now) == ClockStart(ClockNextPlayer(ClockEnd(clock, now)), now)

ArenaPlayed(a, r, action) ==
  [game |-> r.game,
   panicked |-> r.panicked,
   arena |-> IF ~r.panicked /\ action = Continue
             THEN [a EXCEPT !.clock = ClockContinue(@, a.now)]
             ELSE a]

\* Arena::play_action
ArenaPlayAction(a, g, action, dbg) == ArenaPlayed(a, PlayAction(g, action, dbg), action)

(* The first element of get_legal_actions(): the Vec is built in a fixed
   order except where it is filled from a HashSet, whose order is any. *)

FirstNonEmpty(sets) ==
  sets[CHOOSE i \in 1..Len(sets) : sets[i] # {} /\ \A j \in 1..(i - 1) : sets[j] = {}]

\* for tier in 0..3: ReserveHidden(tier) if the deck is not empty, then the
\* tier's face-up cards.
FirstReserveOf(g, tier) ==
  IF Len(g.decks[tier + 1]) > 0 THEN {ReserveHidden(tier)}
  ELSE IF Len(g.dealt_cards[tier + 1]) > 0 THEN {Reserve(g.dealt_cards[tier + 1][1])}
  ELSE {}

FirstReserve(g) ==
  IF Len(CurrentPlayer(g).reserved) < 3
  THEN FirstNonEmpty(<<FirstReserveOf(g, 0), FirstReserveOf(g, 1), FirstReserveOf(g, 2), {Pass}>>)
         \ {Pass}
  ELSE {}

PurchasesOf(g, card_index) ==
  PurchasesWith(card_index, PaymentOptionsFor(CurrentPlayer(g), Card(card_index)))

FirstPurchaseIn(g, cards) ==
  IF \E i \in 1..Len(cards) : PurchasesOf(g, cards[i]) # {}
  THEN PurchasesOf(g, cards[CHOOSE i \in 1..Len(cards) :
                              /\ PurchasesOf(g, cards[i]) # {}
                              /\ \A j \in 1..(i - 1) : PurchasesOf(g, cards[j]) = {}])
  ELSE {}

FirstPurchase(g) == FirstPurchaseIn(g, DealtFlat(g) \o CurrentPlayer(g).reserved)

FirstTakeDouble(g) ==
  {TakeDouble(color) : color \in {c \in 1..5 : g.bank[c] >= 4 /\ \A d \in 1..(c - 1) : g.bank[d] < 4}}

FirstNoble(nobles, developments) ==
  IF \E i \in 1..Len(nobles) : IsAttractedTo(NobleTable[nobles[i] + 1], developments)
  THEN {AttractNoble(nobles[CHOOSE i \in 1..Len(nobles) :
                       /\ IsAttractedTo(NobleTable[nobles[i] + 1], developments)
                       /\ \A j \in 1..(i - 1) :
                            ~IsAttractedTo(NobleTable[nobles[j] + 1], developments)])}
  ELSE {Pass}

\* The values get_legal_actions().unwrap()[0] can have; empty when
\* get_legal_actions() is None.
FirstLegalActions(g) ==
  IF ~GetLegalActions(g).is_some THEN {}
  ELSE CASE g.current_phase = NobleAction -> FirstNoble(g.nobles, CurrentPlayer(g).developments)
         [] g.current_phase = PlayerActionEnd -> {Continue}
         [] g.current_phase = PlayerGemCapExceeded -> LegalDiscards(g).value
         [] g.current_phase = PlayerStart ->
              FirstNonEmpty(<<FirstReserve(g), FirstPurchase(g), LegalTakeDistinct(g),
                              FirstTakeDouble(g), {Pass}>>)

(* Threads: thread h is the handler of connection h (handle_user_connected),
   thread MaxConnections + h the task it spawns. *)

Handlers == 1..MaxConnections

Tasks == (MaxConnections + 1)..(2 * MaxConnections)

TaskOf(h) == MaxConnections + h

ConnectionOf(th) == IF th > MaxConnections THEN th - MaxConnections ELSE th

\* my_id
MyId(th) == sockets[ConnectionOf(th)].client

\* A thread: pc is where it stands, after the number of actions the game had
\* when the handle_action_played it runs was called.
IdleThread == [pc |-> "idle", after |-> 0, deadline |-> 0, action |-> Continue]

\* A connection's websocket: the client id it came with, whether it is open,
\* the messages of the client not yet received, how many the client has
\* sent, and what was sent to the client: the action (by its number in the
\* history) of the last game update, the number of actions of the state in the
\* last action request, -1 for none, and how many lobby updates of each kind.
IdleSocket ==
  [client |-> 0, open |-> TRUE, inbox |-> <<>>, sends |-> 0, updated |-> -1, requested |-> -1,
   lobby |-> [join |-> 0, started |-> 0, leave |-> 0, over |-> 0]]

\* What no step of an arena touches: the build, the records of direct calls
\* of the engine, the pool and the Gems operation.
engine_frame == <<debug_assertions, panicked, call, deal, departures, winner, pool, arith>>

\* The thread goes on at pc.
Goto(th, pc) == threads' = [threads EXCEPT ![th].pc = pc]

\* The thread goes on at pc with no local variable in scope.
GotoFresh(th, pc) == threads' = [threads EXCEPT ![th] = [IdleThread EXCEPT !.pc = pc]]

\* The thread has returned from handle_action_played: a handler is done, a
\* task is back at the head of its loop.
Returns(th) == IF th \in Tasks THEN "wait" ELSE "done"

\* The connected clients: clients.len() counts them.
Connected == {c \in DOMAIN clients : clients[c] # 0}

(* Sending.  Every message is kept as the kind it has, the number of actions
   of the game state it carries, and the number of actions the game had after
   the action its sender played. *)

Sent(kind, after, moves) == [kind |-> kind, after |-> after, moves |-> moves]

\* tx.send(info) on a socket.
Delivered(socket, message) ==
  CASE message.kind = "update" -> [socket EXCEPT !.updated = message.after]
    [] message.kind = "request" -> [socket EXCEPT !.requested = message.moves]
    [] OTHER -> [socket EXCEPT !.lobby[message.kind] = @ + 1]

\* The allowed client a broadcast fails at: the first one in the registry
\* whose socket is closed, where tx.send(info).await.unwrap() panics; 0 when
\* there is none.
FailsAt(cl, socks) ==
  IF \E c \in DOMAIN cl : cl[c] # 0 /\ ~socks[cl[c]].open
  THEN CHOOSE c \in DOMAIN cl :
         /\ cl[c] # 0 /\ ~socks[cl[c]].open
         /\ \A d \in 1..(c - 1) : cl[d] = 0 \/ socks[cl[d]].open
  ELSE 0

\* broadcast(clients, arena, message): the message goes, in the order of
\* allowed_clients, to every allowed client the registry holds.
Broadcast(cl, socks, message) ==
  [h \in DOMAIN socks |->
     IF \E c \in DOMAIN cl : cl[c] = h /\ (FailsAt(cl, socks) = 0 \/ c < FailsAt(cl, socks))
     THEN Delivered(socks[h], message)
     ELSE socks[h]]

\* The thread after a broadcast: it goes on at pc unless a send panicked.
AfterBroadcast(th, pc) ==
  IF FailsAt(clients, sockets) # 0 THEN GotoFresh(th, "panicked")
  ELSE IF pc \in {"update", "played"} THEN Goto(th, pc)
  ELSE GotoFresh(th, pc)

\* The messages all clients have sent.
RECURSIVE MessagesSent(_, _)
MessagesSent(socks, h) == IF h = 0 THEN 0 ELSE socks[h].sends + MessagesSent(socks, h - 1)

(* handle_user_connected *)

\* The connections whose handler has not returned.
Running == {h \in Handlers : threads[h].pc \notin {"idle", "done", "rejected", "panicked"}}

\* What a client has sent on its game socket by the time its connection is
\* handled: nothing, or its opening action, without waiting to be asked.
OpeningMessages == {<<>>, <<ClientMessageAction(TakeDouble(Onyx))>>}

\* Arena::launch serves the route "game": a websocket connection arrives
\* with client id c, and its handler runs up to its look at the registry:
\* if !allowed.contains(&my_id) { return }
\* if clients.get(&my_id).is_some() { return }
\* The connections are numbered in the order of their client ids, which
\* says nothing of the order in which their handlers run.
UserConnects ==
  \E h \in Handlers, c \in ConnectingIds(NumPlayers(game)), opening \in OpeningMessages :
    /\ web.phase = "serving"
    /\ threads[h].pc = "idle"
    /\ \A k \in 1..(h - 1) : threads[k].pc # "idle" /\ sockets[k].client <= c
    /\ Cardinality(Running) < MaxConcurrent
    /\ MessagesSent(sockets, MaxConnections) + Len(opening) <= MaxMessages
    /\ sockets' = [sockets EXCEPT ![h].client = c, ![h].inbox = opening,
                                  ![h].sends = Len(opening)]
    /\ Goto(h, IF c \notin DOMAIN clients THEN "rejected"
               ELSE IF clients[c] # 0 THEN "rejected"
               ELSE "insert")
    /\ UNCHANGED <<game, arena, clients, applied>>
    /\ UNCHANGED <<web, engine_frame>>

\* clients.insert(my_id, (client_tx, game_id)), then the task is spawned.
ConnInsert ==
  \E h \in Handlers :
    /\ threads[h].pc = "insert"
    /\ clients' = [clients EXCEPT ![MyId(h)] = h]
    /\ threads' = [threads EXCEPT ![h].pc = "initialized", ![TaskOf(h)].pc = "wait"]
    /\ UNCHANGED <<game, arena, sockets, applied>>
    /\ UNCHANGED <<web, engine_frame>>

\* handle_user_initialized: broadcast_player_join; then
\* if init_clients.len() == num_players { handle_game_initialized(..) }
ConnInitialized ==
  \E h \in Handlers :
    /\ threads[h].pc = "initialized"
    /\ sockets' = Broadcast(clients, sockets, Sent("join", 0, PrivateGameState(game)))
    /\ AfterBroadcast(h, IF Cardinality(Connected) = NumPlayers(game) THEN "start_game" ELSE "done")
    /\ UNCHANGED <<game, arena, clients, applied>>
    /\ UNCHANGED <<web, engine_frame>>

\* handle_game_initialized: arena.write().await.start_game()
StartGame ==
  \E h \in Handlers :
    /\ threads[h].pc = "start_game"
    /\ arena' = ArenaStartGame(arena)
    /\ threads' = [threads EXCEPT ![h].pc = "started", ![h].after = NumActions(game)]
    /\ UNCHANGED <<game, clients, sockets, applied>>
    /\ UNCHANGED <<web, engine_frame>>

\* handle_game_initialized: broadcast_game_started, then
\* handle_action_played.
GameStarted ==
  \E h \in Handlers :
    /\ threads[h].pc = "started"
    /\ sockets' = Broadcast(clients, sockets,
                            Sent("started", threads[h].after, PrivateGameState(game)))
    /\ AfterBroadcast(h, "update")
    /\ UNCHANGED <<game, arena, clients, applied>>
    /\ UNCHANGED <<web, engine_frame>>

(* handle_action_played, run by a task after it played an action and by the
   handler that started the game *)

\* broadcast_game_update
HapUpdate ==
  \E th \in DOMAIN threads :
    /\ threads[th].pc = "update"
    /\ sockets' = Broadcast(clients, sockets,
                            Sent("update", threads[th].after, PrivateGameState(game)))
    /\ AfterBroadcast(th, "played")
    /\ UNCHANGED <<game, arena, clients, applied>>
    /\ UNCHANGED <<web, engine_frame>>

\* if game_over { handle_game_over(..); return }: broadcast_game_over, then
\* every allowed client is removed from the registry.
HapGameOver ==
  \E th \in DOMAIN threads :
    /\ threads[th].pc = "played"
    /\ IsGameOver(game)
    /\ sockets' = Broadcast(clients, sockets,
                            Sent("over", threads[th].after, PrivateGameState(game)))
    /\ AfterBroadcast(th, Returns(th))
    /\ clients' = IF FailsAt(clients, sockets) = 0 THEN [c \in DOMAIN clients |-> 0] ELSE clients
    /\ UNCHANGED <<game, arena, applied>>
    /\ UNCHANGED <<web, engine_frame>>

\* The PlayerActionRequest to the client of
\* current_player_id().expect(..), whose tx the registry must hold after
\* the wait of TIMEOUT: panic!("no tx ..") otherwise.
RequestSent(th, target) ==
  IF ~target.is_some THEN GotoFresh(th, "panicked") /\ sockets' = sockets
  ELSE IF clients[target.value] = 0 THEN GotoFresh(th, "panicked") /\ sockets' = sockets
  ELSE IF ~sockets[clients[target.value]].open THEN GotoFresh(th, "panicked") /\ sockets' = sockets
  ELSE /\ GotoFresh(th, Returns(th))
       /\ sockets' = [sockets EXCEPT ![clients[target.value]] =
                        Delivered(@, Sent("request", threads[th].after, PrivateGameState(game)))]

\* How many moves the history has: GameHistory::num_moves counts the
\* places where the player of an entry differs from the player of the entry
\* before it.
NumMoves(history) ==
  Cardinality({i \in 2..Len(history) : history[i][1] # history[i - 1][1]})

\* get_game_update: InitializeGame while the history is empty, then the
\* GameUpdates message with update_num = num_moves + 1.
GetGameUpdate(g) ==
  IF NumActions(g) = 0 THEN [kind |-> "InitializeGame", update_num |-> 0]
  ELSE [kind |-> "GameUpdates", update_num |-> NumMoves(g.history) + 1]

\* outgoing_stream.send(message) on the sink of the mirror.
Written(w, message) ==
  IF message.kind = "InitializeGame" THEN [w EXCEPT !.inits = @ + 1]
  ELSE [w EXCEPT !.updates = @ + 1, !.last = message.update_num]

\* A sink whose lock is granted whoever holds it.
SinkGranted(w) == TRUE

\* outgoing_stream.write().await returns: nobody holds the write lock of the
\* sink.
SinkFree(w) == w.writers = {}

\* if stream.is_some() { push_game_update(..) }:
\* outgoing_stream.write().await, granted when nobody holds the sink.
HapPushLock ==
  \E th \in DOMAIN threads :
    /\ threads[th].pc = "played"
    /\ ~IsGameOver(game)
    /\ web.attached
    /\ SinkFree(web)
    /\ web' = [web EXCEPT !.writers = @ \cup {th}]
    /\ Goto(th, "push")
    /\ UNCHANGED <<game, arena, clients, sockets, applied>>
    /\ UNCHANGED engine_frame

\* push_game_update with the sink held: arena.read().await, get_game_update
\* and send.  small_client_info() is client_info(), which panics with
\* "Cannot get legal actions" when the game is over; the guards are dropped
\* either way.
HapPush ==
  \E th \in DOMAIN threads :
    /\ threads[th].pc = "push"
    /\ IF ~GetLegalActions(game).is_some
       THEN /\ web' = [web EXCEPT !.writers = @ \ {th}]
            /\ GotoFresh(th, "panicked")
       ELSE /\ web' = [Written(web, GetGameUpdate(game)) EXCEPT !.writers = @ \ {th}]
            /\ Goto(th, "request")
    /\ UNCHANGED <<game, arena, clients, sockets, applied>>
    /\ UNCHANGED engine_frame

\* The rest of handle_action_played, after the push if a mirror is
\* attached.
HapRequest ==
  \E th \in DOMAIN threads :
    /\ \/ threads[th].pc = "played" /\ ~IsGameOver(game) /\ ~web.attached
       \/ threads[th].pc = "request"
    /\ RequestSent(th, CurrentPlayerId(arena, game))
    /\ UNCHANGED <<game, arena, clients, applied>>
    /\ UNCHANGED <<web, engine_frame>>

(* The client task *)

\* while current_player_id() != Some(my_id) && !is_game_over() { sleep }
\* if is_game_over() { break }
\* let time_remaining = arena.read().await.time_remaining()
TaskTurn ==
  \E th \in Tasks :
    /\ threads[th].pc = "wait"
    /\ IsTurnOf(arena, game, MyId(th)) \/ IsGameOver(game)
    /\ IsGameOver(game) \/ Len(applied) < MaxMoves
    /\ threads' = IF IsGameOver(game)
                  THEN [threads EXCEPT ![th].pc = "leave"]
                  ELSE [threads EXCEPT ![th].pc = "receive",
                                       ![th].deadline = arena.now + TimeRemaining(arena)]
    /\ UNCHANGED <<game, arena, clients, sockets, applied>>
    /\ UNCHANGED <<web, engine_frame>>

\* Where the task goes on with the message it received.
Received(thread, message) ==
  CASE message.kind = "error" -> [IdleThread EXCEPT !.pc = "default"]
    [] message.kind = "garbage" -> [IdleThread EXCEPT !.pc = "default"]
    [] message.kind = "log" -> [IdleThread EXCEPT !.pc = "wait"]
    [] message.kind = "action" -> [IdleThread EXCEPT !.pc = "validate", !.action = message.action]

\* timeout(time_remaining, client_rx.next()) yields a message, or None when
\* the stream has ended.
TaskReceive ==
  \E th \in Tasks :
    /\ threads[th].pc = "receive"
    /\ IF Len(sockets[ConnectionOf(th)].inbox) > 0
       THEN /\ threads' = [threads EXCEPT ![th] = Received(@, Head(sockets[ConnectionOf(th)].inbox))]
            /\ sockets' = [sockets EXCEPT ![ConnectionOf(th)].inbox = Tail(@)]
       ELSE /\ ~sockets[ConnectionOf(th)].open
            /\ GotoFresh(th, "panicked")
            /\ sockets' = sockets
    /\ UNCHANGED <<game, arena, clients, applied>>
    /\ UNCHANGED <<web, engine_frame>>

\* timeout(time_remaining, client_rx.next()) elapses: no message came in
\* the time the task read, so that the clock has none left either.
TaskTimeout ==
  \E th \in Tasks :
    /\ threads[th].pc = "receive"
    /\ Len(sockets[ConnectionOf(th)].inbox) = 0
    /\ sockets[ConnectionOf(th)].open
    /\ arena.now >= threads[th].deadline
    /\ GotoFresh(th, "default")
    /\ UNCHANGED <<game, arena, clients, sockets, applied>>
    /\ UNCHANGED <<web, engine_frame>>

\* validate_action(action, client_id, arena)
ValidateAction(a, g, action, client_id) ==
  IF IsTimedOut(a) THEN FALSE
  ELSE IF ~GetLegalActions(g).is_some THEN FALSE
  ELSE IF action \notin GetLegalActions(g).value THEN FALSE
  ELSE IF ~IsTurnOf(a, g, client_id) THEN FALSE
  ELSE TRUE

\* if !validate_action(&action, my_id, arena.clone()).await { .. }
TaskValidate ==
  \E th \in Tasks :
    /\ threads[th].pc = "validate"
    /\ IF ValidateAction(arena, game, threads[th].action, MyId(th))
       THEN Goto(th, "play")
       ELSE GotoFresh(th, "default")
    /\ UNCHANGED <<game, arena, clients, sockets, applied>>
    /\ UNCHANGED <<web, engine_frame>>

\* What a call of play_action by a task met and did.
Application(th, action, default, r) ==
  [thread |-> th,
   client |-> MyId(th),
   default |-> default,
   action |-> action,
   on_turn |-> IsTurnOf(arena, game, MyId(th)),
   legal |-> action \in OptionsOrNone(GetLegalActions(game)),
   first |-> action \in FirstLegalActions(game),
   panicked |-> r.panicked]

\* arena.write().await.play_action(action), and the call of
\* handle_action_played that follows.
Plays(th, default, r) ==
  /\ game' = r.game
  /\ arena' = r.arena
  /\ applied' = Append(applied, Application(th, threads[th].action, default, r))
  /\ threads' = IF r.panicked
                THEN [threads EXCEPT ![th] = [IdleThread EXCEPT !.pc = "panicked"]]
                ELSE [threads EXCEPT ![th] = [IdleThread EXCEPT !.pc = "update",
                                                                !.after = NumActions(r.game)]]
  /\ UNCHANGED <<clients, sockets>>
  /\ UNCHANGED <<web, engine_frame>>

\* The action the client sent, validated, is played.
TaskPlay ==
  \E th \in Tasks :
    /\ threads[th].pc = "play"
    /\ Plays(th, FALSE, ArenaPlayAction(arena, game, threads[th].action, debug_assertions))

(* play_default_action *)

\* if is_game_over() { return }
\* let action = arena.read().await.get_legal_actions().unwrap()[0].clone()
DefaultRead ==
  \E th \in Tasks :
    /\ threads[th].pc = "default"
    /\ IF IsGameOver(game) THEN Goto(th, "wait")
       ELSE \E action \in FirstLegalActions(game) :
              threads' = [threads EXCEPT ![th].pc = "default_play", ![th].action = action]
    /\ UNCHANGED <<game, arena, clients, sockets, applied>>
    /\ UNCHANGED <<web, engine_frame>>

\* arena.write().await.play_action(action)
DefaultPlay ==
  \E th \in Tasks :
    /\ threads[th].pc = "default_play"
    /\ Plays(th, TRUE, ArenaPlayAction(arena, game, threads[th].action, debug_assertions))

\* handle_user_disconnected: clients.remove(&my_id), then
\* broadcast_player_leave.
TaskLeave ==
  \E th \in Tasks :
    /\ threads[th].pc = "leave"
    /\ clients' = [clients EXCEPT ![MyId(th)] = 0]
    /\ sockets' = Broadcast(clients', sockets, Sent("leave", 0, PrivateGameState(game)))
    /\ threads' = [threads EXCEPT ![th].pc =
                     IF FailsAt(clients', sockets) = 0 THEN "exited" ELSE "panicked"]
    /\ UNCHANGED <<game, arena, applied>>
    /\ UNCHANGED <<web, engine_frame>>

(* The clients and the time *)

\* A message arrives on the game socket of connection h.
Send(h, message) ==
  /\ sockets[h].client # 0
  /\ sockets[h].open
  /\ MessagesSent(sockets, MaxConnections) < MaxMessages
  /\ sockets' = [sockets EXCEPT ![h].inbox = Append(@, message), ![h].sends = @ + 1]
  /\ UNCHANGED <<game, arena, clients, threads, applied>>
  /\ UNCHANGED <<web, engine_frame>>

\* A client sends a message on its game socket, whoever's turn it is.
ClientSends == \E h \in Handlers, message \in ClientMessages : Send(h, message)

\* A client closes its game socket, or the connection is lost: the stream
\* of its messages ends, and a send to it fails.
ClientCloses ==
  \E h \in Handlers :
    /\ sockets[h].client # 0
    /\ sockets[h].open
    /\ \A k \in Handlers : sockets[k].open
    /\ sockets' = [sockets EXCEPT ![h].open = FALSE]
    /\ UNCHANGED <<game, arena, clients, threads, applied>>
    /\ UNCHANGED <<web, engine_frame>>

\* Time passes.
Tick ==
  /\ arena.now < MaxTime
  /\ arena' = [arena EXCEPT !.now = @ + 1]
  /\ UNCHANGED <<game, clients, threads, sockets, applied>>
  /\ UNCHANGED <<web, engine_frame>>

(* The upstream mirror *)

\* How many heartbeats a run sends.
MaxHeartbeats == 2

\* The task of maintain_heartbeat.
HeartbeatTask == 0

\* The mirror of an arena: whether web_stream is Some, who holds the write
\* lock of the sink, and what was written to the sink: how many
\* InitializeGame and GameUpdates messages, the update_num of the last
\* GameUpdates (0 for none), how many heartbeats.  Of Arena::launch: whether
\* send_to_web is set, where the launch is, the requests sent during the
\* handshake, the responses received and whether the heartbeat task was
\* spawned.  This one is the arena launched without send_to_web, serving.
NoWeb == [attached |-> FALSE, writers |-> {}, inits |-> 0, updates |-> 0, last |-> 0,
          heartbeats |-> 0, send_to_web |-> FALSE, phase |-> "serving", sent |-> <<>>,
          received |-> {}, beating |-> FALSE]

\* maintain_heartbeat: outgoing_stream.write().await, then the heartbeat is
\* sent and the guard dropped; not while a push holds both.
HeartbeatLock ==
  /\ web.beating
  /\ web.heartbeats < MaxHeartbeats
  /\ SinkFree(web)
  /\ web' = [web EXCEPT !.writers = @ \cup {HeartbeatTask}]
  /\ UNCHANGED <<game, arena, clients, threads, sockets, applied>>
  /\ UNCHANGED engine_frame

HeartbeatSend ==
  /\ HeartbeatTask \in web.writers
  /\ web' = [web EXCEPT !.writers = @ \ {HeartbeatTask}, !.heartbeats = @ + 1]
  /\ UNCHANGED <<game, arena, clients, threads, sockets, applied>>
  /\ UNCHANGED engine_frame

(* The arenas explored *)

\* The lobby of a new arena for n players: nobody is connected.
Lobby(n) ==
  /\ arena = ArenaNew(n, InitialTime, LobbyIncrement)
  /\ clients = [c \in 1..n |-> 0]
  /\ threads = [th \in 1..(2 * MaxConnections) |-> IdleThread]
  /\ sockets = [h \in Handlers |-> IdleSocket]

\* A match of n players in progress: every client is connected, every
\* handler has returned, every task is at the head of its loop and the
\* clock runs for the current player.
Match(n, g) ==
  /\ \E increment \in Increments :
       arena = [ArenaNew(n, InitialTime, increment) EXCEPT
                  !.game_started = TRUE,
                  !.clock.current_player = Some(g.current_player)]
  /\ clients = [c \in 1..n |-> c]
  /\ threads = [th \in 1..(2 * MaxConnections) |->
                  IF th \in 1..n THEN [IdleThread EXCEPT !.pc = "done"]
                  ELSE IF th \in Tasks /\ ConnectionOf(th) \in 1..n
                  THEN [IdleThread EXCEPT !.pc = "wait"]
                  ELSE IdleThread]
  /\ sockets = [h \in Handlers |->
                  IF h \in 1..n
                  THEN [IdleSocket EXCEPT
                          !.client = h,
                          !.updated = NumActions(g),
                          !.requested = IF h = g.current_player + 1 THEN NumActions(g) ELSE -1]
                  ELSE IdleSocket]

\* The matches explored, in progress at the start of a run: the deal and
\* the game.
Matches ==
  <<[deal |-> 2, game |-> Points2Early],
    [deal |-> 2, game |-> Points2Late],
    [deal |-> 1, game |-> Deadlock2Late]>>

NoEngineCall ==
  /\ NoArith
  /\ pool = <<>>
  /\ panicked = FALSE
  /\ call = NoCall
  /\ departures = 0
  /\ winner = NoWinnerCall

InitArena ==
  /\ debug_assertions \in BOOLEAN
  /\ \E m \in 1..Len(Matches) :
       /\ deal = Matches[m].deal
       /\ game = Matches[m].game
       /\ Match(Deals[Matches[m].deal].n, Matches[m].game)
  /\ applied = <<>>
  /\ web = NoWeb
  /\ NoEngineCall

\* A match in progress: the tasks, the clients and the clock.
NextArena ==
  \/ HapUpdate
  \/ HapGameOver
  \/ HapRequest
  \/ TaskTurn
  \/ TaskReceive
  \/ TaskTimeout
  \/ TaskValidate
  \/ TaskPlay
  \/ DefaultRead
  \/ DefaultPlay
  \/ TaskLeave
  \/ ClientSends
  \/ ClientCloses
  \/ Tick

SpecArena == InitArena /\ [][NextArena]_vars

InitLobby ==
  /\ debug_assertions \in BOOLEAN
  /\ deal = 2
  /\ game = GameNew(Deals[2].n, Deals[2].decks, Deals[2].nobles)
  /\ Lobby(Deals[2].n)
  /\ applied = <<>>
  /\ web = NoWeb
  /\ NoEngineCall

\* A new arena: the connections, the start of the game and its first
\* moves, while no clock runs out.
NextLobby ==
  \/ UserConnects
  \/ ConnInsert
  \/ ConnInitialized
  \/ StartGame
  \/ GameStarted
  \/ HapUpdate
  \/ HapRequest
  \/ TaskTurn
  \/ TaskReceive
  \/ TaskValidate
  \/ TaskPlay
  \/ DefaultRead
  \/ DefaultPlay

SpecLobby == InitLobby /\ [][NextLobby]_vars

\* Arena::launch with send_to_web: web::start has authenticated and has
\* pushed the initial game before any client was served, and the stream is
\* handed to every connection.
Mirrored ==
  [NoWeb EXCEPT !.attached = TRUE, !.inits = 1, !.send_to_web = TRUE,
                !.sent = <<"Authenticate", "InitializeGame">>,
                !.received = {"AuthenticatedSuccess", "InitializedSuccess"},
                !.beating = TRUE]

\* The mirror of a match in progress whose actions were played one after
\* the other: the handler that started the game has pushed the empty
\* history, and every action was followed by the push of
\* handle_action_played.
MirrorOf(g) ==
  [Mirrored EXCEPT !.inits = 2,
                   !.updates = Len(g.history),
                   !.last = GetGameUpdate(g).update_num]

\* A match of n players that has just started: the handler of the last
\* connection has run start_game and has broadcast GameStarted, and is
\* about to enter handle_action_played.
Opened(n, g) ==
  /\ arena = ArenaStartGame(ArenaNew(n, InitialTime, LobbyIncrement))
  /\ clients = [c \in 1..n |-> c]
  /\ threads = [th \in 1..(2 * MaxConnections) |->
                  IF th \in 1..(n - 1) THEN [IdleThread EXCEPT !.pc = "done"]
                  ELSE IF th = n THEN [IdleThread EXCEPT !.pc = "update"]
                  ELSE IF th \in Tasks /\ ConnectionOf(th) \in 1..n
                  THEN [IdleThread EXCEPT !.pc = "wait"]
                  ELSE IdleThread]
  /\ sockets = [h \in Handlers |->
                  IF h \in 1..n
                  THEN [IdleSocket EXCEPT !.client = h,
                                          !.lobby.join = n - h + 1,
                                          !.lobby.started = 1]
                  ELSE IdleSocket]

InitMirror ==
  /\ debug_assertions \in BOOLEAN
  /\ \/ \E m \in 1..Len(Matches) :
          /\ deal = Matches[m].deal
          /\ game = Matches[m].game
          /\ Match(Deals[Matches[m].deal].n, Matches[m].game)
          /\ web = MirrorOf(Matches[m].game)
     \/ /\ deal = 2
        /\ game = GameNew(Deals[2].n, Deals[2].decks, Deals[2].nobles)
        /\ Opened(Deals[2].n, game)
        /\ web = Mirrored
  /\ applied = <<>>
  /\ NoEngineCall

\* A match in progress with the upstream mirror attached: the tasks, the
\* clients and the heartbeat task.
NextMirror ==
  \/ HapUpdate
  \/ HapGameOver
  \/ HapPushLock
  \/ HapPush
  \/ HapRequest
  \/ TaskTurn
  \/ TaskReceive
  \/ TaskValidate
  \/ TaskPlay
  \/ DefaultRead
  \/ DefaultPlay
  \/ TaskLeave
  \/ ClientSends
  \/ HeartbeatLock
  \/ HeartbeatSend

SpecMirror == InitMirror /\ [][NextMirror]_vars

(* The end of a match *)

\* The matches about to end: by points and by deadlock.
Endings == {2, 3}

InitEnding ==
  /\ debug_assertions \in BOOLEAN
  /\ \E m \in Endings :
       /\ deal = Matches[m].deal
       /\ game = Matches[m].game
       /\ Match(Deals[Matches[m].deal].n, Matches[m].game)
  /\ applied = <<>>
  /\ web = NoWeb
  /\ NoEngineCall

\* The last moves of a match whose sockets stay open.
NextEnding ==
  \/ HapUpdate
  \/ HapGameOver
  \/ HapRequest
  \/ TaskTurn
  \/ TaskReceive
  \/ TaskTimeout
  \/ TaskValidate
  \/ TaskPlay
  \/ DefaultRead
  \/ DefaultPlay
  \/ TaskLeave
  \/ ClientSends
  \/ Tick

\* A step of a client task.
TaskStep ==
  \/ HapUpdate
  \/ HapGameOver
  \/ HapRequest
  \/ TaskTurn
  \/ TaskReceive
  \/ TaskTimeout
  \/ TaskValidate
  \/ TaskPlay
  \/ DefaultRead
  \/ DefaultPlay
  \/ TaskLeave

\* Once the game is over the runtime keeps scheduling the tasks while one
\* of them can take a step, and time passes; no client is bound to send
\* anything.
Scheduled == WF_vars(IsGameOver(game) /\ TaskStep) /\ WF_vars(Tick)

SpecEnding == InitEnding /\ [][NextEnding]_vars /\ Scheduled

(* Arena::launch and web::start *)

\* What the aggregator may answer, and what the stream may yield instead:
\* a text that is no GlobalServerResponse, a websocket error, its end.
Responses ==
  {"AuthenticatedSuccess", "AuthenticatedFailure", "InitializedSuccess", "InitializedFailure",
   "Updated", "Reconnected", "Warning", "Error", "Info", "garbage", "error", "end"}

\* A handshake that logs an Updated response as well and goes on.
LoggedOrUpdated == {"Warning", "Error", "Info", "Updated"}

\* handle_warning, handle_error, handle_info: logged, and the loop goes on.
Logged == {"Warning", "Error", "Info"}

\* The launch goes on at phase.
Launched(w, phase) == [w EXCEPT !.phase = phase]

\* The launch has received response.
Answered(w, response, phase) == [w EXCEPT !.received = @ \cup {response}, !.phase = phase]

\* launch: if send_to_web { web::start(..) }, where connect_async succeeds
\* or fails.
LaunchConnect ==
  /\ web.phase = "launch"
  /\ \E connected \in BOOLEAN :
       web' = Launched(web, IF ~web.send_to_web THEN "serving"
                            ELSE IF connected THEN "authenticate" ELSE "aborted")
  /\ UNCHANGED <<game, arena, clients, threads, sockets, applied>>
  /\ UNCHANGED engine_frame

\* push_authentication sends Authenticate:
\* outgoing_stream.send(message).await.expect(..)
AuthenticateSend ==
  /\ web.phase = "authenticate"
  /\ \E ok \in BOOLEAN :
       web' = IF ok THEN [Launched(web, "authenticating") EXCEPT !.sent = Append(@, "Authenticate")]
              ELSE Launched(web, "panicked")
  /\ UNCHANGED <<game, arena, clients, threads, sockets, applied>>
  /\ UNCHANGED engine_frame

\* The loop of push_authentication on incoming_stream.next(), and the test
\* of its result in start.
AuthenticateReceive ==
  /\ web.phase = "authenticating"
  /\ \E response \in Responses :
       web' = CASE response = "AuthenticatedSuccess" -> Answered(web, response, "initialize")
                [] response \in Logged -> Answered(web, response, "authenticating")
                [] response \in {"garbage", "error"} -> Answered(web, response, "panicked")
                [] OTHER -> Answered(web, response, "aborted")
  /\ UNCHANGED <<game, arena, clients, threads, sockets, applied>>
  /\ UNCHANGED engine_frame

\* push_initial_game sends get_game_update(..) of the new game; a failed
\* send returns None.
InitializeSend ==
  /\ web.phase = "initialize"
  /\ \E ok \in BOOLEAN :
       web' = IF ok THEN [Written(Launched(web, "initializing"), GetGameUpdate(game))
                           EXCEPT !.sent = Append(@, GetGameUpdate(game).kind)]
              ELSE Launched(web, "aborted")
  /\ UNCHANGED <<game, arena, clients, threads, sockets, applied>>
  /\ UNCHANGED engine_frame

\* The loop of push_initial_game on incoming_stream.next(), and the test of
\* its result in start.
InitializeReceive ==
  /\ web.phase = "initializing"
  /\ \E response \in Responses :
       web' = CASE response = "InitializedSuccess" -> Answered(web, response, "initialized")
                [] response \in Logged -> Answered(web, response, "initializing")
                [] response = "error" -> Answered(web, response, "panicked")
                [] OTHER -> Answered(web, response, "aborted")
  /\ UNCHANGED <<game, arena, clients, threads, sockets, applied>>
  /\ UNCHANGED engine_frame

\* start spawns maintain_heartbeat and returns Ok; launch keeps the stream
\* and serves the routes.
LaunchServe ==
  /\ web.phase = "initialized"
  /\ web' = [Launched(web, "serving") EXCEPT !.beating = TRUE, !.attached = TRUE]
  /\ UNCHANGED <<game, arena, clients, threads, sockets, applied>>
  /\ UNCHANGED engine_frame

InitLaunch ==
  /\ debug_assertions \in BOOLEAN
  /\ deal = 2
  /\ game = GameNew(Deals[2].n, Deals[2].decks, Deals[2].nobles)
  /\ Lobby(Deals[2].n)
  /\ applied = <<>>
  /\ \E send_to_web \in BOOLEAN :
       web = [NoWeb EXCEPT !.send_to_web = send_to_web, !.phase = "launch"]
  /\ NoEngineCall

\* The launch of an arena, up to the connections of its clients.
NextLaunch ==
  \/ LaunchConnect
  \/ AuthenticateSend
  \/ AuthenticateReceive
  \/ InitializeSend
  \/ InitializeReceive
  \/ LaunchServe
  \/ HeartbeatLock
  \/ HeartbeatSend
  \/ UserConnects
  \/ ConnInsert
  \/ ConnInitialized

SpecLaunch == InitLaunch /\ [][NextLaunch]_vars

----------------------------------------------------------------------------
(* Player::payment_options_for over players with given gems and developments *)

\* The most gems of one colour such a player holds.
MaxHeld == 2

\* The gems such a player holds.
PaymentGems ==
  {<<a, b, c, d, e, f>> : a \in 0..MaxHeld, b \in 0..MaxHeld, c \in 0..MaxHeld,
                          d \in 0..MaxHeld, e \in 0..MaxHeld, f \in 0..MaxHeld}

\* The developments such a player has.
PaymentDevelopments == {GemsEmpty, <<1, 0, 1, 0, 0, 0>>, <<0, 2, 0, 1, 1, 0>>}

\* The first game of Deals at the start of seat 0's turn, that player
\* holding gems out of the bank and having developments.
PayingGame(gems, developments) ==
  [GameNew(Deals[1].n, Deals[1].decks, Deals[1].nobles) EXCEPT
     !.players[1].gems = gems,
     !.players[1].developments = developments,
     !.bank = GemsSub(@, gems)]

InitPayment ==
  /\ debug_assertions \in BOOLEAN
  /\ deal = 1
  /\ \E gems \in PaymentGems, developments \in PaymentDevelopments :
       game = PayingGame(gems, developments)
  /\ panicked = FALSE
  /\ call = NoCall
  /\ departures = 0
  /\ winner = NoWinnerCall
  /\ NoArena
  /\ NoArith

\* The player buys a card that get_legal_actions() offers with a payment it
\* offers.
PlayPurchase ==
  /\ ~call.made
  /\ \E action \in LegalPurchases(game) : Call(action, TRUE)

NextPayment == PlayPurchase

SpecPayment == InitPayment /\ [][NextPayment]_vars

\* The smaller of two numbers.
Least(a, b) == IF a < b THEN a ELSE b

\* The payments of cost out of the gems held: of every colour no more than
\* is held or owed, and gold for the rest, as far as the gold held goes.
PaymentVectors(cost, held) ==
  {p \in {<<a, b, c, d, e, GemsTotal(cost) - (a + b + c + d + e)>> :
            a \in 0..Least(held[1], cost[1]), b \in 0..Least(held[2], cost[2]),
            c \in 0..Least(held[3], cost[3]), d \in 0..Least(held[4], cost[4]),
            e \in 0..Least(held[5], cost[5])} :
     p[Gold] <= held[Gold]}

\* The gems a player lacks for cost, summed over the colours.
Shortfall(cost, held) ==
  LET lack(c) == IF cost[c] > held[c] THEN cost[c] - held[c] ELSE 0
  IN  lack(1) + lack(2) + lack(3) + lack(4) + lack(5)

\* What C11 says payment_options_for(card) returns for player.
PaymentRule(player, card) ==
  LET cost == DiscountedWith(card.cost, player.developments)
      options == PaymentOptionsFor(player, card)
  IN  /\ options.is_some => options.value = PaymentVectors(cost, player.gems)
      /\ options.is_some => options.value # {}
      /\ ~options.is_some <=> PaymentVectors(cost, player.gems) = {}
      /\ ~options.is_some <=> Shortfall(cost, player.gems) > player.gems[Gold]

\* C11: for every card and player, payment_options_for returns exactly the
\* payments that spend of every colour at most what is held and owed and
\* gold for the rest within the gold held; it returns None exactly when
\* there is no such payment, which is when the gems lacking exceed the gold
\* held, and it never returns an empty set.
C11_PaymentOptions ==
  \A i \in 1..NumPlayers(game), id \in 0..(NumCards - 1) :
    PaymentRule(game.players[i], Card(id))

\* A player has three or more ways to pay for a card, one of them with
\* gold, cannot afford another card, and has bought a card.
C11_GoldSpentSeveralWays ==
  /\ call.made /\ ~panicked
  /\ \E id \in 0..(NumCards - 1) :
       LET options == PaymentOptionsFor(game.players[1], Card(id))
       IN  /\ options.is_some
           /\ Cardinality(options.value) >= 3
           /\ \E p \in options.value : p[Gold] > 0
  /\ \E id \in 0..(NumCards - 1) : ~PaymentOptionsFor(game.players[1], Card(id)).is_some

----------------------------------------------------------------------------
(* Properties of the rules engine: the caps and the nobles *)

\* The multisets of num gems out of the gems held.
SubGems(held, num) ==
  {g \in {<<a, b, c, d, e, f>> :
            a \in 0..held[1], b \in 0..held[2], c \in 0..held[3],
            d \in 0..held[4], e \in 0..held[5], f \in 0..held[6]} :
     GemsTotal(g) = num}

\* C12: in a game advanced with actions of get_legal_actions(), outside of
\* PlayerGemCapExceeded every player holds at most 10 gems; in
\* PlayerGemCapExceeded the legal actions are exactly the Discards of every
\* multiset of the current player's gems of size total - 10; and after a
\* Discard was applied that player holds exactly 10 gems.
C12_GemCap ==
  call.legal =>
    /\ game.current_phase # PlayerGemCapExceeded =>
         \A i \in 1..NumPlayers(game) : GemsTotal(game.players[i].gems) <= 10
    /\ game.current_phase = PlayerGemCapExceeded =>
         GetLegalActions(game) =
           Some({Discard(d) : d \in SubGems(CurrentPlayer(game).gems,
                                            GemsTotal(CurrentPlayer(game).gems) - 10)})
    /\ call.made /\ ~panicked /\ call.action.tag = "Discard" =>
         GemsTotal(CurrentPlayer(game).gems) = 10

\* A player over the cap has discarded down to 10 gems.
C12_DiscardedToTen ==
  /\ call.made /\ call.legal /\ ~panicked
  /\ call.action.tag = "Discard"
  /\ GemsTotal(call.action.gems) >= 1
  /\ GemsTotal(CurrentPlayer(game).gems) = 10

\* The set of the cards some player has reserved.
ReservedCards(g) == UNION {Range(g.players[i].reserved) : i \in 1..NumPlayers(g)}

\* C13: in a game advanced with actions of get_legal_actions(), every
\* player has at most 3 reserved cards and blind_reserved within reserved;
\* Reserve and ReserveHidden are legal only while the current player has
\* fewer than 3 reserved cards; and a card that was purchased is in neither
\* list of its buyer.
C13_ReservedCap ==
  call.legal =>
    /\ \A i \in 1..NumPlayers(game) :
         /\ Len(game.players[i].reserved) <= 3
         /\ Range(game.players[i].blind_reserved) \subseteq Range(game.players[i].reserved)
    /\ (\E action \in OptionsOrNone(GetLegalActions(game)) :
          action.tag \in {"Reserve", "ReserveHidden"})
         => Len(CurrentPlayer(game).reserved) < 3
    /\ call.made /\ ~panicked /\ call.action.tag = "Purchase" =>
         /\ call.action.num \notin Range(CurrentPlayer(game).reserved)
         /\ call.action.num \notin Range(CurrentPlayer(game).blind_reserved)

\* A player with three reserved cards, one of them drawn from a deck, is at
\* the start of a turn, where no Reserve is offered.
C13_ThreeReserved ==
  /\ call.made /\ call.legal /\ ~panicked
  /\ game.current_phase = PlayerStart
  /\ Len(CurrentPlayer(game).reserved) = 3
  /\ Len(CurrentPlayer(game).blind_reserved) >= 1
  /\ \A action \in OptionsOrNone(GetLegalActions(game)) :
       action.tag \notin {"Reserve", "ReserveHidden"}

\* C14: in a game advanced with actions of get_legal_actions(), after
\* every action each tier has at most 4 face-up cards and no card is both
\* face-up and in a player's reserved list, after a ReserveHidden too.
C14_BoardRows ==
  call.legal =>
    /\ \A t \in 1..3 : Len(game.dealt_cards[t]) <= 4
    /\ Range(DealtFlat(game)) \cap ReservedCards(game) = {}

\* A ReserveHidden was applied on a tier whose row is full: the card drawn
\* is reserved and the row has four cards.
C14_DrewFromDeck ==
  /\ call.made /\ call.legal /\ ~panicked
  /\ call.action.tag = "ReserveHidden"
  /\ Len(game.dealt_cards[call.action.num + 1]) = 4
  /\ Len(CurrentPlayer(game).blind_reserved) >= 1

\* The nobles on the board whose requirements the developments meet.
NoblesMet(g, developments) ==
  {id \in Range(g.nobles) :
     \A c \in 1..5 : NobleTable[id + 1].requirements[c] <= developments[c]}

\* What C15 says the legal actions of phase NobleAction are.
NobleRule(g, legal) ==
  g.current_phase = NobleAction =>
    /\ legal.is_some
    /\ NoblesMet(g, CurrentPlayer(g).developments) # {} =>
         legal.value = {AttractNoble(id) : id \in NoblesMet(g, CurrentPlayer(g).developments)}
    /\ NoblesMet(g, CurrentPlayer(g).developments) = {} => legal.value = {Pass}

\* C15: in a game advanced with actions of get_legal_actions(), the legal
\* actions of phase NobleAction are the AttractNoble of every noble on the
\* board whose requirements the current player's developments meet, and
\* Pass alone when there is no such noble.
C15_NobleActions == call.legal => NobleRule(game, GetLegalActions(game))

\* C15 short of the deadlock: while deadlock_count is not 2n, the legal
\* actions of phase NobleAction are as C15 says; at deadlock_count = 2n
\* get_legal_actions() is None in every phase.
C15_NobleActionsUndeadlocked ==
  call.legal =>
    IF game.deadlock_count = 2 * NumPlayers(game)
    THEN ~GetLegalActions(game).is_some
    ELSE NobleRule(game, GetLegalActions(game))

\* A player whose developments meet a noble's requirements is offered the
\* noble and no Pass.
C15_NobleMet ==
  /\ call.made /\ call.legal /\ ~panicked
  /\ game.current_phase = NobleAction
  /\ NoblesMet(game, CurrentPlayer(game).developments) # {}
  /\ Pass \notin GetLegalActions(game).value

----------------------------------------------------------------------------
(* Claims about the arena *)

\* The game update of an action reaches no socket after that of a later
\* action.
UpdatesInOrder == \A h \in Handlers : sockets'[h].updated >= sockets[h].updated

\* A request for the next action reaches a socket after the update of the
\* last action applied.
RequestAfterUpdate ==
  \A h \in Handlers :
    sockets'[h].requested # sockets[h].requested
      => sockets'[h].updated >= sockets'[h].requested

\* A thread about to broadcast the update of the action it applied finds
\* the game as that action left it.
NoneAppliedBeforeUpdate ==
  \A th \in DOMAIN threads :
    threads[th].pc = "update" => NumActions(game) = threads[th].after

\* C7: broadcast ordering. On every socket the game update of applied
\* action k is sent before any update of action k+1 and before the request
\* that solicits action k+1, and no action is applied between an action and
\* the broadcast of the state it produced, under every interleaving of the
\* client tasks.
C7_BroadcastOrdering ==
  [][UpdatesInOrder /\ RequestAfterUpdate /\ NoneAppliedBeforeUpdate']_vars

\* Every default action applied was the first legal action of the game it
\* was applied to, in the turn of the client it was played for, and
\* play_action returned from it.
DefaultsApplied ==
  \A i \in 1..Len(applied) :
    applied[i].default => applied[i].first /\ applied[i].on_turn /\ ~applied[i].panicked

\* A task inside play_default_action stands in for the current player of a
\* game that is not over, and the action it has read is still the first
\* legal one when it is applied.
DefaultsPending ==
  \A th \in Tasks :
    /\ threads[th].pc = "default"
         => ~IsGameOver(game) /\ IsTurnOf(arena, game, MyId(th))
    /\ threads[th].pc = "default_play"
         => IsTurnOf(arena, game, MyId(th)) /\ threads[th].action \in FirstLegalActions(game)

\* C6: when the active client's message cannot be parsed or fails
\* validation, or none arrives in the remaining clock time, the submitted
\* action is not applied and exactly one action is applied in its place for
\* the current player, the first element of get_legal_actions() at that
\* moment, followed by handle_action_played.
C6_DefaultAction == DefaultsApplied /\ DefaultsPending

\* C6 in builds without debug assertions.
C6_DefaultActionRelease == ~debug_assertions => C6_DefaultAction

\* C5: turn gating. Under every interleaving of the client tasks, an action
\* received from a client is applied only if, at the moment it is applied,
\* that client is seated at the current player and the action is an element
\* of get_legal_actions(); every action applied, a default one included, is
\* applied during the turn of the client it is played for.
C5_TurnGating ==
  \A i \in 1..Len(applied) :
    /\ applied[i].on_turn
    /\ ~applied[i].default => applied[i].legal

\* The clock after k more turns have ended at the time now.
RECURSIVE ClockContinues(_, _, _)
ClockContinues(clock, now, k) ==
  IF k = 0 THEN clock ELSE ClockContinues(ClockContinue(clock, now), now, k - 1)

\* The current player's clock has expired in this turn.
Expired == arena.game_started /\ IsTimedOut(arena)

\* A player marked timed-out stays marked.
FlagsStay ==
  \A p \in DOMAIN arena.clock.timed_out :
    arena.clock.timed_out[p] => arena'.clock.timed_out[p]

\* The turn of a player whose clock has expired ends with the player
\* marked timed-out.
ExpiredIsFlagged ==
  Expired /\ arena'.clock.current_player # arena.clock.current_player
    => arena'.clock.timed_out[arena.clock.current_player.value + 1]

\* When the clock of the current player has expired, is_timed_out() is true
\* again in that player's next turn, even if the turns in between take no
\* time.
ExpiryLasts ==
  Expired =>
    ClockTimeRemaining(ClockContinues(arena.clock, arena.now, Len(arena.clock.total_time)),
                       arena.now) <= 0

\* No action a client submitted is applied for a player marked timed-out.
FlaggedPlaysDefaults ==
  Len(applied') > Len(applied) /\ ~applied'[Len(applied')].default
    => ~arena.clock.timed_out[game.current_player + 1]

\* C16: timeout is permanent. Once a player's clock has expired during one
\* of that player's turns, the player is marked timed-out, is_timed_out()
\* is true throughout all of that player's later turns whatever the
\* increment, and no action submitted by the client is applied for that
\* player again.
C16_TimeoutPermanent ==
  [][FlagsStay /\ ExpiredIsFlagged /\ ExpiryLasts' /\ FlaggedPlaysDefaults]_vars

\* C17: a client socket that is closed or fails aborts no server task: a
\* task whose client's stream has ended plays the default action when the
\* client is the active player, a send that fails is passed over, and play
\* goes on for the other clients. The only thread that stops is one whose
\* own call of play_action panicked.
C17_SocketFailureTolerated ==
  \A th \in DOMAIN threads :
    threads[th].pc = "panicked"
      => \E i \in 1..Len(applied) : applied[i].thread = th /\ applied[i].panicked

\* C18: a well-formed ClientMessage::Log received on the game socket from
\* the active client during its turn is a protocol error: the task that
\* receives it goes on to play a default action for that client.
C18_LogPlaysDefault ==
  [][\A th \in Tasks :
       /\ threads[th].pc = "receive"
       /\ Len(sockets[ConnectionOf(th)].inbox) > 0
       /\ Head(sockets[ConnectionOf(th)].inbox).kind = "log"
       /\ threads'[th].pc # "receive"
       => threads'[th].pc = "default"]_vars

\* The handlers inside handle_game_initialized.
Starting == {h \in Handlers : threads[h].pc \in {"start_game", "started", "update", "played"}}

\* A handler goes into handle_game_initialized only when every allowed
\* client is in the registry, the game has not started and no other handler
\* is starting it.
StartsWhenComplete ==
  \A h \in Handlers :
    threads'[h].pc = "start_game" /\ threads[h].pc # "start_game"
      => /\ Cardinality(Connected) = NumPlayers(game)
         /\ ~arena.game_started
         /\ Starting = {}

\* start_game runs on an arena that has not started.
StartGameOnce == arena' # arena /\ game' = game => ~arena.game_started

\* No socket is sent a second GameStarted.
GameStartedOnce == \A h \in Handlers : sockets[h].lobby.started <= 1

\* C19: the game starts exactly once per arena. Under every interleaving of
\* concurrent client connections, start_game, the GameStarted broadcast and
\* the first turn solicitation are executed once, and only when all n
\* allowed clients are in the registry.
C19_StartsOnce == [][StartsWhenComplete /\ StartGameOnce /\ GameStartedOnce']_vars

\* C20: no action is applied before the game has started. Until start_game
\* has run every client task stays blocked at the head of its loop, and the
\* messages clients have sent early change neither the game nor the clock.
C20_NothingBeforeStart ==
  ~arena.game_started =>
    /\ applied = <<>>
    /\ game = GameNew(Deals[deal].n, Deals[deal].decks, Deals[deal].nobles)
    /\ arena.clock = ClockNew(NumPlayers(game), InitialTime, arena.clock.increment)
    /\ \A th \in Tasks : threads[th].pc \in {"idle", "wait"}

\* Every allowed client is connected and the first player's client has sent
\* its action, while the game has not started.
C20_EarlyMessageWaits ==
  /\ ~arena.game_started
  /\ Cardinality(Connected) = NumPlayers(game)
  /\ \E th \in Tasks :
       /\ threads[th].pc = "wait"
       /\ MyId(th) = AllowedClients(NumPlayers(game))[game.current_player + 1]
       /\ Len(sockets[ConnectionOf(th)].inbox) > 0

----------------------------------------------------------------------------
(* More claims about the arena *)

\* An entry of the registry is not replaced by another connection.
EntryKept ==
  \A c \in DOMAIN clients :
    clients[c] # 0 /\ clients'[c] # 0 => clients'[c] = clients[c]

\* The handler that rejects its connection changes nothing: the registry,
\* the game, the clock and what every socket was sent stay as they are, and
\* no task is spawned for it.
RejectionChangesNothing ==
  \A h \in Handlers :
    threads'[h].pc = "rejected" /\ threads[h].pc # "rejected"
      => /\ clients' = clients
         /\ game' = game
         /\ arena' = arena
         /\ \A k \in Handlers : sockets'[k].lobby = sockets[k].lobby
         /\ threads'[TaskOf(h)].pc = "idle"

\* A connection is rejected exactly when its client id is not allowed or is
\* in the registry when its handler looks.
RejectedWhenKnown ==
  \A h \in Handlers :
    threads[h].pc = "idle" /\ threads'[h].pc # "idle"
      => (threads'[h].pc = "rejected"
            <=> \/ sockets'[h].client \notin DOMAIN clients
                \/ clients[sockets'[h].client] # 0)

\* The task of a rejected connection never runs.
NoTaskForRejected ==
  \A h \in Handlers : threads[h].pc = "rejected" => threads[TaskOf(h)].pc = "idle"

\* C21: a connection whose client id is not in allowed_clients, or is
\* already in the registry, is rejected: the registry is unchanged, an
\* existing entry is not replaced, no task is spawned for it, no lobby
\* update is broadcast and the game and the clock are unchanged.
C21_Rejected ==
  [][EntryKept /\ RejectionChangesNothing /\ RejectedWhenKnown /\ NoTaskForRejected']_vars

(* The end of the game *)

\* What was written to the sink of the mirror, heartbeats aside.
Pushed(w) == w.inits + w.updates

\* The thread leaves handle_action_played through the game-over branch.
EndsGame(th) ==
  /\ threads[th].pc = "played"
  /\ IsGameOver(game)
  /\ threads'[th].pc # "played"

\* Every connected client got the final state and then the GameOver.
FinalBroadcast ==
  \A th \in DOMAIN threads :
    EndsGame(th) =>
      \A c \in Connected :
        /\ sockets'[clients[c]].updated = NumActions(game)
        /\ sockets'[clients[c]].lobby.over = sockets[clients[c]].lobby.over + 1

\* The registry holds none of the arena's clients afterwards.
RegistryEmptied ==
  \A th \in DOMAIN threads :
    EndsGame(th) => \A c \in DOMAIN clients : clients'[c] = 0

\* An attached mirror was written to.
FinalPush ==
  \A th \in DOMAIN threads :
    EndsGame(th) /\ web.attached => Pushed(web') > Pushed(web)

\* C22: when an applied action ends the game, handle_action_played
\* broadcasts the final state and the GameOver to every connected client,
\* removes all of the arena's clients from the registry and, with a mirror
\* attached, pushes a final update to it.
C22_GameOver == [][FinalBroadcast /\ RegistryEmptied /\ FinalPush]_vars

(* The updates of the mirror *)

\* No thread is inside handle_action_played, and none has died.
Quiet ==
  \A th \in DOMAIN threads : threads[th].pc \notin {"update", "played", "push", "request", "panicked"}

\* Every applied action was followed by one GameUpdates message.
OneUpdateEach == Quiet => web.updates = Len(game.history)

\* A GameUpdates message that is written carries its own number.
NumberedInOrder == web'.updates # web.updates => web'.last = web'.updates

\* C26: one GameUpdates message is sent to the aggregator after every
\* applied action, and the i-th one carries update_num = i.
C26_UpdateNumbers == []OneUpdateEach /\ [][NumberedInOrder]_vars

\* The numbers of the GameUpdates messages never go down along the sink.
NeverDecreases == web'.updates # web.updates => web'.last >= web.last

\* At most one writer holds the sink.
SingleWriter == Cardinality(web.writers) <= 1

\* C27: under every interleaving of the client tasks and the heartbeat task
\* the update_num values of the GameUpdates messages never decrease in the
\* order they are written, and no two writers write to the sink at the same
\* time.
C27_MirrorOrdered == []SingleWriter /\ [][NeverDecreases]_vars

\* A push waits while the heartbeat task holds the sink, after two actions
\* of two turns were pushed.
C27_PushWaitsForHeartbeat ==
  /\ HeartbeatTask \in web.writers
  /\ web.last >= 2
  /\ Len(applied) >= 2
  /\ \E th \in Tasks : threads[th].pc = "played" /\ ~IsGameOver(game)

(* The clock *)

\* A handler runs start_game.
StartsGame ==
  \E h \in Handlers :
    /\ threads[h].pc = "start_game"
    /\ threads'[h].pc # "start_game"
    /\ arena'.clock = ClockStart(arena.clock, arena.now)

\* play_action has returned from a Continue.
ContinueApplied ==
  /\ Len(applied') = Len(applied) + 1
  /\ applied'[Len(applied')].action = Continue
  /\ ~applied'[Len(applied')].panicked

\* The clock changes in start_game and at a Continue only, and at every
\* Continue by end(), next_player(), start() in that order.
ClockFrame ==
  /\ arena'.clock # arena.clock => StartsGame \/ ContinueApplied
  /\ ContinueApplied =>
       arena'.clock = ClockStart(ClockNextPlayer(ClockEnd(arena.clock, arena.now)), arena.now)

\* After the start the clock runs for the current player of the game.
ClockFollowsGame == arena.game_started => arena.clock.current_player = Some(game.current_player)

\* C24: the clock changes only in start_game and when a Continue is
\* applied, where end(), next_player(), start() run in that order; every
\* other action leaves it unchanged, so that after the start of the game the
\* clock's current player is the game's current player.
C24_ClockOnContinue == []ClockFollowsGame /\ [][ClockFrame]_vars

\* A Continue was applied after time had passed, with an increment to add.
C24_TurnPassedOn ==
  /\ Len(applied) > 0
  /\ applied[Len(applied)].action = Continue
  /\ ~applied[Len(applied)].panicked
  /\ arena.clock.increment > 0
  /\ arena.clock.current_timestamp > 0
  /\ arena.clock.current_timestamp = arena.now

(* The end of the tasks *)

\* Every task that was spawned has left its loop through the test of
\* is_game_over().
TasksLeft == \A th \in Tasks : threads[th].pc \in {"idle", "exited"}

\* C23: after the game is over every per-client task eventually observes
\* is_game_over() and leaves its loop, as long as each task keeps being
\* scheduled: none stays blocked for ever waiting for its turn or for a
\* message.
C23_TasksLeave == IsGameOver(game) ~> TasksLeft

(* The handshake with the aggregator *)

\* The launch has stopped short of serving.
Stopped == web.phase \in {"aborted", "panicked"}

\* A client connection has been taken.
Admitted == \E h \in Handlers : threads[h].pc # "idle"

\* Authenticate first, InitializeGame after Authenticated(Success), the
\* heartbeat task and the server after Initialized(Success).
HandshakeOrder ==
  /\ web.sent # <<>> => web.sent[1] = "Authenticate"
  /\ (\E i \in DOMAIN web.sent : web.sent[i] = "InitializeGame")
       => "AuthenticatedSuccess" \in web.received
  /\ web.beating \/ web.heartbeats > 0 => "InitializedSuccess" \in web.received
  /\ web.send_to_web /\ (web.phase = "serving" \/ Admitted)
       => /\ "InitializedSuccess" \in web.received
          /\ web.sent = <<"Authenticate", "InitializeGame">>

\* Whatever else than the awaited success and the logged kinds arrives, the
\* launch stops, and a stopped launch has admitted nobody and beats no
\* heart.
FailureAborts ==
  /\ web.received \ ({"AuthenticatedSuccess", "InitializedSuccess"} \cup {"Warning", "Error", "Info"}) # {}
       => Stopped
  /\ Stopped => ~Admitted /\ ~web.beating /\ ~web.attached

\* A logged response leaves the launch where it is, an awaited success moves
\* it on, anything else stops it for good.
ResponseDecides ==
  /\ web.phase = "authenticating" /\ web'.received # web.received
       => web'.phase = CASE web'.received \ web.received \subseteq {"Warning", "Error", "Info"} -> web.phase
                          [] "AuthenticatedSuccess" \in web'.received -> "initialize"
                          [] OTHER -> web'.phase
  /\ web.phase = "initializing" /\ web'.received # web.received
       => web'.phase = CASE web'.received \ web.received \subseteq {"Warning", "Error", "Info"} -> web.phase
                          [] web'.received \ web.received = {"InitializedSuccess"} -> "initialized"
                          [] OTHER -> web'.phase
  /\ web.phase \in {"aborted", "panicked"} => web'.phase = web.phase

\* C28: with send_to_web, Authenticate is the first message sent,
\* InitializeGame is sent only after Authenticated(Success) was received, the
\* heartbeat task and the local server start only after
\* Initialized(Success); Warning, Error and Info responses before the
\* decisive one change nothing, and a failure or any other unexpected
\* response aborts the launch, so that no client is ever admitted.
C28_Handshake == [](HandshakeOrder /\ FailureAborts) /\ [][ResponseDecides]_vars

\* The launch serves after a handshake in which a Warning and an Info came
\* before the decisive responses; a heartbeat was sent and a client is in.
C28_ServingAfterWarnings ==
  /\ web.send_to_web
  /\ web.phase = "serving"
  /\ {"Warning", "Info"} \subseteq web.received
  /\ web.heartbeats > 0
  /\ \E h \in Handlers : threads[h].pc = "initialized"


(* Replay: game_logic/game.rs, arena/replay.rs *)

\* One turn of the loop of advance_history_with:
\* self.history.add(p, a.clone()); self.play_action(a).
AdvanceWith(g, entry, dbg) ==
  PlayAction([g EXCEPT !.history = HistoryAdd(@, entry[1], entry[2])], entry[2], dbg)

\* Game::advance_history_with(history), from entry i on: the game it leaves
\* and whether a play_action panicked.
RECURSIVE AdvanceHistoryFrom(_, _, _, _)
AdvanceHistoryFrom(g, history, i, dbg) ==
  IF i > Len(history) THEN [game |-> g, panicked |-> FALSE]
  ELSE LET r == AdvanceWith(g, history[i], dbg)
       IN  IF r.panicked THEN r ELSE AdvanceHistoryFrom(r.game, history, i + 1, dbg)

AdvanceHistoryWith(g, history, dbg) == AdvanceHistoryFrom(g, history, 1, dbg)

\* Replay::new(game): the game as it was dealt.
InitialGame == GameNew(Deals[deal].n, Deals[deal].decks, Deals[deal].nobles)

\* C25: for every k, applying the first k entries of a game's history to a
\* copy of its initial state with advance_history_with yields the game
\* observed right after the k-th action was played, history included.
C25_Replay ==
  ~panicked =>
    AdvanceHistoryWith(InitialGame, game.history, debug_assertions)
      = [game |-> game, panicked |-> FALSE]


(* arena/pool.rs (feature "pool") *)

\* How many arenas a pool is given, and how many upgrades it handles.
MaxArenas == 2
MaxUpgrades == 3

\* The game ids GameId::new() hands out, and one more that connections can
\* name.
GameIds == 1..MaxArenas
NamedGameIds == 1..(MaxArenas + 1)

\* The numbers of players of the arenas added.
PoolPlayers == {2, 3}

\* No upgrade was handled yet.
NoUpgrade == [handled |-> FALSE, game_id |-> 0, client_id |-> 0, outcome |-> "none"]

\* ArenaPool::new: both maps are empty.  arenas maps a game id to its arena,
\* kept as its number of players (0: no entry); clients maps a game id to its
\* registry, kept as the set of clients handed to it (has: whether the key
\* is there).
PoolNew ==
  [arenas |-> [g \in GameIds |-> 0],
   clients |-> [g \in GameIds |-> [has |-> FALSE, members |-> {}]],
   upgrades |-> 0,
   last |-> NoUpgrade,
   returned |-> <<>>]

\* GameId::new(): an id no arena of the pool has.
GameIdNew(p) == {g \in GameIds : p.arenas[g] = 0}

\* The map of registries after add_arena: nothing is inserted.
ClientsAfterAdd(p, game_id) == p.clients

\* ArenaPool::add_arena(num_players, arena): the arena is inserted under a
\* new game id, and (game_id, arena.allowed_clients()) is returned.
AddArena ==
  \E n \in PoolPlayers, game_id \in GameIdNew(pool) :
    /\ pool' = [pool EXCEPT !.arenas[game_id] = n,
                            !.clients = ClientsAfterAdd(pool, game_id),
                            !.returned = Append(@, <<game_id, AllowedClients(n)>>)]
    /\ UNCHANGED <<game, arena, clients, threads, sockets, applied, web>>
    /\ UNCHANGED <<debug_assertions, panicked, call, deal, departures, winner, arith>>

\* The match (arenas, clients) of handle_upgrade.
UpgradeOutcome(p, game_id) ==
  IF game_id \in GameIds /\ p.arenas[game_id] # 0
  THEN IF p.clients[game_id].has THEN "delegated" ELSE "panicked"
  ELSE "dropped"

\* user_connected(client_id, ws, clients, arena, web_stream): the connection
\* is handed to the arena with its registry.
Delegated(p, game_id, client_id) ==
  [p EXCEPT !.clients[game_id].members = @ \cup {client_id}]

\* ArenaPool::handle_upgrade for a connection to /game/{game_id}/{client_id}.
HandleUpgrade ==
  \E game_id \in NamedGameIds, client_id \in ConnectingIds(3) :
    /\ pool.upgrades < MaxUpgrades
    /\ pool' = [(IF UpgradeOutcome(pool, game_id) = "delegated"
                 THEN Delegated(pool, game_id, client_id) ELSE pool)
                  EXCEPT !.upgrades = @ + 1,
                         !.last = [handled |-> TRUE, game_id |-> game_id, client_id |-> client_id,
                                   outcome |-> UpgradeOutcome(pool, game_id)]]
    /\ UNCHANGED <<game, arena, clients, threads, sockets, applied, web>>
    /\ UNCHANGED <<debug_assertions, panicked, call, deal, departures, winner, arith>>

InitPool ==
  /\ debug_assertions \in BOOLEAN
  /\ deal = 1
  /\ game = GameNew(Deals[1].n, Deals[1].decks, Deals[1].nobles)
  /\ panicked = FALSE
  /\ call = NoCall
  /\ departures = 0
  /\ winner = NoWinnerCall
  /\ NoServer
  /\ pool = PoolNew
  /\ NoArith

NextPool == AddArena \/ HandleUpgrade

SpecPool == InitPool /\ [][NextPool]_vars

\* The last connection named an arena of the pool and one of its clients.
ValidUpgrade ==
  /\ pool.last.handled
  /\ pool.last.game_id \in GameIds
  /\ pool.arenas[pool.last.game_id] # 0
  /\ \E i \in 1..pool.arenas[pool.last.game_id] :
       AllowedClients(pool.arenas[pool.last.game_id])[i] = pool.last.client_id

\* A valid connection is handed to its arena and the client is in that game.
Routed ==
  ValidUpgrade =>
    /\ pool.last.outcome = "delegated"
    /\ pool.last.client_id \in pool.clients[pool.last.game_id].members

\* A connection that names no arena is dropped and changes nothing.
UnknownDropped ==
  /\ pool'.upgrades # pool.upgrades
  /\ pool'.last.game_id \notin GameIds \/ pool.arenas[pool'.last.game_id] = 0
  => /\ pool'.last.outcome = "dropped"
     /\ pool'.arenas = pool.arenas
     /\ pool'.clients = pool.clients

\* C29: after add_arena has returned (game_id, client_ids), a connection to
\* /game/{game_id}/{client_id} with client_id among client_ids is delegated
\* to that arena's connection handler and the client becomes a member of the
\* game; a connection naming an unknown game_id is logged and dropped
\* without changing any arena or registry.
C29_PoolRouting == []Routed /\ [][UnknownDropped]_vars


(* The operators of Gems: gems.rs, impl AddAssign, SubAssign, Add, Sub *)

\* The counts the operands are made of: none, some, the largest i8, and a
\* count below zero as a subtraction leaves it.
OperandCounts == {-1, 0, 1, 127}

\* The operands: Gems values of onyx and gold.
Operands == {<<onyx, 0, 0, 0, 0, gold>> : onyx \in OperandCounts, gold \in OperandCounts}

\* An i8 after an operation that wraps.
WrappedI8(x) == ((x + 128) % 256) - 128

\* Whether x is no i8: the operation overflows, which panics in a build
\* with debug assertions and wraps in one without.
OverflowsI8(x) == x < -128 \/ x > 127

\* The fields of the result, and whether one of them overflowed.
FieldsAdded(a, b) == [c \in 1..6 |-> a[c] + b[c]]

FieldsSubtracted(a, b) == [c \in 1..6 |-> a[c] - b[c]]

Overflowed(fields) == \E c \in 1..6 : OverflowsI8(fields[c])

Wrapped(fields) == [c \in 1..6 |-> WrappedI8(fields[c])]

\* What an operator leaves: whether it panicked, and the value it produced.
Failed == [panicked |-> TRUE, value |-> GemsEmpty]

Produced(value) == [panicked |-> FALSE, value |-> value]

\* add and sub: the fields, then debug_assert!(self.legal()) on the left
\* operand, then the new value.
Binary(fields, self, dbg) ==
  IF dbg /\ Overflowed(fields) THEN Failed
  ELSE IF dbg /\ ~GemsLegal(self) THEN Failed
  ELSE Produced(Wrapped(fields))

\* add_assign and sub_assign: the fields, then debug_assert!(self.legal())
\* on the value assigned.
Assigning(fields, dbg) ==
  IF dbg /\ Overflowed(fields) THEN Failed
  ELSE IF dbg /\ ~GemsLegal(Wrapped(fields)) THEN Failed
  ELSE Produced(Wrapped(fields))

\* The operation was carried out.
Operated(r) ==
  /\ ~arith.done
  /\ arith' = [arith EXCEPT !.done = TRUE, !.panicked = r.panicked, !.value = r.value]
  /\ UNCHANGED <<game, debug_assertions, panicked, call, deal, departures, winner>>
  /\ UNCHANGED arena_vars

\* self + other
OpAdd ==
  /\ arith.op = "add"
  /\ Operated(Binary(FieldsAdded(arith.self, arith.other), arith.self, debug_assertions))

\* self - other
OpSub ==
  /\ arith.op = "sub"
  /\ Operated(Binary(FieldsSubtracted(arith.self, arith.other), arith.self, debug_assertions))

\* self += other
OpAddAssign ==
  /\ arith.op = "add_assign"
  /\ Operated(Assigning(FieldsAdded(arith.self, arith.other), debug_assertions))

\* self -= other
OpSubAssign ==
  /\ arith.op = "sub_assign"
  /\ Operated(Assigning(FieldsSubtracted(arith.self, arith.other), debug_assertions))

InitGems ==
  /\ debug_assertions \in BOOLEAN
  /\ deal = 1
  /\ game = GameNew(Deals[1].n, Deals[1].decks, Deals[1].nobles)
  /\ panicked = FALSE
  /\ call = NoCall
  /\ departures = 0
  /\ winner = NoWinnerCall
  /\ NoArena
  /\ \E op \in {"add", "sub", "add_assign", "sub_assign"}, self \in Operands, other \in Operands :
       arith = [op |-> op, self |-> self, other |-> other,
                done |-> FALSE, panicked |-> FALSE, value |-> GemsEmpty]

NextGems == OpAdd \/ OpSub \/ OpAddAssign \/ OpSubAssign

SpecGems == InitGems /\ [][NextGems]_vars

\* C30: any Gems addition or subtraction (+, -, +=, -=) whose result would
\* contain a negative count fails instead of producing the value: no Gems
\* value with a negative count is ever observable.
C30_NoNegativeGems == arith.done /\ ~arith.panicked => GemsLegal(arith.value)

----------------------------------------------------------------------------
(* The opening position: game.rs tests test_init_legal_actions,
   test_init_legal_round *)

\* The sets of exactly three non-gold colours.
ThreeColourSets ==
  {s \in [1..6 -> {0, 1}] : s[Gold] = 0 /\ s[1] + s[2] + s[3] + s[4] + s[5] = 3}

\* What a new game offers: a draw from every deck, every face-up card to
\* reserve, two of every colour, and three colours of every kind.
OpeningActions(g) ==
  {ReserveHidden(tier) : tier \in 0..2}
    \cup {Reserve(card) : card \in Range(DealtFlat(g))}
    \cup {TakeDouble(color) : color \in Range(GemAllExpectGold)}
    \cup {TakeDistinct(s) : s \in ThreeColourSets}

\* Whether the current player of g has made no move in a game just dealt.
Fresh(g) == g = GameNew(NumPlayers(g), Deals[deal].decks, Deals[deal].nobles)

\* C31: a game just created, with 2, 3 or 4 players, has exactly 30 legal
\* actions: ReserveHidden of the 3 tiers, Reserve of the 12 face-up cards,
\* TakeDouble of the 5 non-gold colours, TakeDistinct of the 10 sets of three
\* colours, and no Purchase; no card of the 90 can be paid for by a player
\* who holds nothing, whatever the shuffle puts on the board.
C31_OpeningActions ==
  /\ \A id \in 0..(NumCards - 1) : ~PaymentOptionsFor(PlayerNew, Card(id)).is_some
  /\ Fresh(game) =>
       /\ GetLegalActions(game) = Some(OpeningActions(game))
       /\ Cardinality(GetLegalActions(game).value) = 30
       /\ Cardinality({a \in GetLegalActions(game).value : a.tag = "ReserveHidden"}) = 3
       /\ Cardinality({a \in GetLegalActions(game).value : a.tag = "Reserve"}) = 12
       /\ Cardinality({a \in GetLegalActions(game).value : a.tag = "TakeDouble"}) = 5
       /\ Cardinality({a \in GetLegalActions(game).value : a.tag = "TakeDistinct"}) = 10
       /\ ~\E a \in GetLegalActions(game).value : a.tag = "Purchase"

\* A new game of four players offering its 30 actions.
C31_FourPlayerOpening ==
  /\ Fresh(game)
  /\ NumPlayers(game) = 4
  /\ Cardinality(OptionsOrNone(GetLegalActions(game))) = 30

\* Whether exactly these actions have been played, all by the first player,
\* in a two-player game, every call having returned.
Played(actions) ==
  /\ NumPlayers(game) = 2
  /\ ~panicked
  /\ game.history = [i \in 1..Len(actions) |-> <<0, actions[i]>>]

\* The first turn of the engine's tests up to its Continue.
TookTwoOnyx ==
  /\ Played(<<TakeDouble(Onyx)>>)
     => /\ game.current_phase = NobleAction
        /\ GetLegalActions(game) = Some({Pass})
  /\ Played(<<TakeDouble(Onyx), Pass>>) => game.current_phase = PlayerActionEnd
  /\ Played(<<TakeDouble(Onyx), Pass, Continue>>)
     => /\ game.current_player = 1
        /\ game.current_phase = PlayerStart

\* C32 (as stated): from the two-player opening TakeDouble(Onyx) leads to
\* NobleAction with Pass the only legal action, Pass to PlayerActionEnd,
\* Continue to player 1, who then has exactly 30 legal actions.
C32_FirstTurn ==
  /\ TookTwoOnyx
  /\ Played(<<TakeDouble(Onyx), Pass, Continue>>)
     => Cardinality(OptionsOrNone(GetLegalActions(game))) = 30

\* C32 (amended): as above, and player 1 then has exactly 29 legal actions,
\* those of the opening but TakeDouble(Onyx): the onyx pile is down to 2.
C32_FirstTurnThenTwentyNine ==
  /\ TookTwoOnyx
  /\ Played(<<TakeDouble(Onyx), Pass, Continue>>)
     => /\ game.bank[Onyx] = 2
        /\ GetLegalActions(game) = Some(OpeningActions(game) \ {TakeDouble(Onyx)})
        /\ Cardinality(OptionsOrNone(GetLegalActions(game))) = 29

\* Player 1 to move after player 0 took two onyx, passed and continued.
C32_SecondPlayerToMove ==
  /\ Played(<<TakeDouble(Onyx), Pass, Continue>>)
  /\ game.current_player = 1
  /\ Cardinality(OptionsOrNone(GetLegalActions(game))) = 29

\* The turn TakeDouble(Ruby), Pass, Continue of the players 0..k-1 in order.
RubyLine(k) ==
  [i \in 1..(3 * k) |->
     <<(i - 1) \div 3,
       CASE i % 3 = 1 -> TakeDouble(Ruby) [] i % 3 = 2 -> Pass [] OTHER -> Continue>>]

\* Whether the first k players of a four-player game have each taken two
\* rubies and nothing else has been played.
RubyTurns(k) ==
  /\ NumPlayers(game) = 4
  /\ ~panicked
  /\ game.history = RubyLine(k)

\* The legal actions of the state, none when the game is over.
Offered == OptionsOrNone(GetLegalActions(game))

\* TakeDouble(c) is offered exactly in PlayerStart, for a colour other than
\* gold whose pile holds at least 4.
TakeDoubleRule ==
  \A c \in Range(GemAll) :
    TakeDouble(c) \in Offered
      <=> (game.current_phase = PlayerStart /\ c # Gold /\ game.bank[c] >= 4)

\* C33 (as stated): from the four-player bank TakeDouble(Ruby) is legal for
\* three successive players and leaves one ruby, after which it is no longer
\* offered; TakeDouble(c) is legal exactly in PlayerStart for c other than
\* gold with bank[c] >= 4.
C33_ThreeRubyTurns ==
  /\ \A k \in 0..2 : RubyTurns(k) => TakeDouble(Ruby) \in Offered
  /\ RubyTurns(3) => (game.bank[Ruby] = 1 /\ TakeDouble(Ruby) \notin Offered)
  /\ ~panicked => TakeDoubleRule

\* C33 (amended): TakeDouble(Ruby) is legal for two successive players,
\* which leaves three rubies, after which it is no longer offered, and a
\* third TakeDouble(Ruby) is played by a caller that does not ask for the
\* legal actions only; the rule for TakeDouble(c) is as stated.
C33_TwoRubyTurns ==
  /\ \A k \in 0..1 : RubyTurns(k) => TakeDouble(Ruby) \in Offered
  /\ RubyTurns(1) => game.bank[Ruby] = 5
  /\ RubyTurns(2) => (game.bank[Ruby] = 3 /\ TakeDouble(Ruby) \notin Offered)
  /\ game.history = Append(RubyLine(2), <<2, TakeDouble(Ruby)>>) => ~call.legal
  /\ ~panicked => TakeDoubleRule

\* The third player to move with three rubies left in the bank.
C33_ThirdPlayerToMove ==
  /\ RubyTurns(2)
  /\ game.current_player = 2
  /\ game.current_phase = PlayerStart
  /\ game.bank[Ruby] = 3

----------------------------------------------------------------------------
(* TakeDistinct in the legal actions: game.rs test_choose_distinct_gems *)

\* The non-gold colours whose pile in the bank is not empty.
NonEmptyPiles(bank) == {c \in Range(GemAllExpectGold) : bank[c] > 0}

\* The colours of a set of colours.
Members(set) == {c \in Range(GemAll) : set[c] > 0}

Min(a, b) == IF a < b THEN a ELSE b

\* The sets of exactly k colours taken from piles.
ColourSetsOf(piles, k) ==
  {s \in [1..6 -> {0, 1}] : Members(s) \subseteq piles /\ Cardinality(Members(s)) = k}

\* The TakeDistinct actions a bank allows: every set of min(3, d) colours
\* with non-empty piles, none when d = 0.
TakeDistinctRule(bank) ==
  LET d == Cardinality(NonEmptyPiles(bank))
  IN  IF d = 0 THEN {}
      ELSE {TakeDistinct(s) : s \in ColourSetsOf(NonEmptyPiles(bank), Min(3, d))}

\* C34: in PlayerStart the TakeDistinct actions offered are exactly
\* TakeDistinct(S) for every set S of min(3, d) non-gold colours with
\* non-empty piles, d being the number of such piles; none has fewer colours,
\* gold or an empty pile.
C34_TakeDistinct ==
  (game.current_phase = PlayerStart /\ GetLegalActions(game).is_some)
    => /\ {a \in Offered : a.tag = "TakeDistinct"} = TakeDistinctRule(game.bank)
       /\ \A a \in Offered :
            a.tag = "TakeDistinct"
              => /\ a.gems[Gold] = 0
                 /\ \A c \in Members(a.gems) : game.bank[c] > 0
                 /\ SetLen(a.gems) = Min(3, Cardinality(NonEmptyPiles(game.bank)))

\* A player to move with two piles left: one TakeDistinct, of both colours.
C34_TwoPilesLeft ==
  /\ game.current_phase = PlayerStart
  /\ GetLegalActions(game).is_some
  /\ Cardinality(NonEmptyPiles(game.bank)) = 2
  /\ game.bank[Gold] > 0
  /\ Cardinality({a \in Offered : a.tag = "TakeDistinct"}) = 1

----------------------------------------------------------------------------
(* game_logic/history.rs: the grouping of the history in turns *)

\* A grouping that starts a new turn at every entry.
GroupByEntry(history) == [i \in 1..Len(history) |-> <<history[i]>>]

\* GameHistory::group_by_player(): the runs of consecutive entries of one
\* player, in order.  turn_sequences and current_turn are the loop's
\* variables after the first i entries.
RECURSIVE GroupLoop(_, _, _, _)
GroupLoop(history, i, turn_sequences, current_turn) ==
  IF i > Len(history)
  THEN IF current_turn # <<>> THEN Append(turn_sequences, current_turn) ELSE turn_sequences
  ELSE IF i > 1 /\ history[i - 1][1] = history[i][1]
       THEN GroupLoop(history, i + 1, turn_sequences, Append(current_turn, history[i]))
       ELSE GroupLoop(history, i + 1,
                      IF current_turn # <<>> THEN Append(turn_sequences, current_turn)
                      ELSE turn_sequences,
                      <<history[i]>>)

GroupByPlayer(history) == GroupLoop(history, 1, <<>>, <<>>)

\* groups.into_iter().flatten()
RECURSIVE Flatten(_, _)
Flatten(groups, k) == IF k = 0 THEN <<>> ELSE Flatten(groups, k - 1) \o groups[k]

\* Whether the groups are the turns of n players in seating order, each
\* closed by its only Continue, the last one possibly open.
TurnsInSeatingOrder(groups, n) ==
  \A i \in 1..Len(groups) :
    /\ \A e \in 1..Len(groups[i]) : groups[i][e][1] = (i - 1) % n
    /\ i < Len(groups) => groups[i][Len(groups[i])][2] = Continue
    /\ \A e \in 1..(Len(groups[i]) - 1) : groups[i][e][2] # Continue

IsPrefix(s, t) == Len(s) <= Len(t) /\ SubSeq(t, 1, Len(s)) = s

Grouped(g) ==
  /\ TurnsInSeatingOrder(GroupByPlayer(g.history), NumPlayers(g))
  /\ Flatten(GroupByPlayer(g.history), Len(GroupByPlayer(g.history))) = g.history

----------------------------------------------------------------------------
(* The cards of a game: decks, face-up rows and reserved lists *)

\* Every place a card can be in, one sequence after the other: the three
\* decks, the three rows, the reserved list of every player.
RECURSIVE ReservedFlat(_, _)
ReservedFlat(players, k) ==
  IF k = 0 THEN <<>> ELSE ReservedFlat(players, k - 1) \o players[k].reserved

Places(g) ==
  g.decks[1] \o g.decks[2] \o g.decks[3] \o DealtFlat(g) \o ReservedFlat(g.players, NumPlayers(g))

\* The cards that are in some place.
InPlaces(g) == Range(Places(g))

\* The developments of the first k players.
RECURSIVE DevelopmentsOf(_, _)
DevelopmentsOf(players, k) ==
  IF k = 0 THEN 0 ELSE DevelopmentsOf(players, k - 1) + GemsTotal(players[k].developments)

\* No card is in two places or twice in one, every card in a place is one
\* of the 90, and the cards in no place are as many as the developments.
CardsConserved(g) ==
  /\ Cardinality(InPlaces(g)) = Len(Places(g))
  /\ InPlaces(g) \subseteq 0..(NumCards - 1)
  /\ NumCards - Cardinality(InPlaces(g)) = DevelopmentsOf(g.players, NumPlayers(g))

\* A step puts no card back in a place, and takes a card out of its place
\* only as the card of an applied Purchase.
LeaveByPurchase ==
  /\ InPlaces(game') \subseteq InPlaces(game)
  /\ \A id \in InPlaces(game) \ InPlaces(game') :
       /\ call'.action.tag = "Purchase"
       /\ call'.action.num = id
       /\ ~panicked'

\* C38: in a game advanced with actions of get_legal_actions(), each of
\* the 90 card ids is in at most one place among the decks, the face-up rows
\* and the reserved lists; a card leaves these places only by being purchased
\* and is in none of them afterwards; the cards purchased are as many as the
\* developments of all players.
C38_CardConservation ==
  /\ [](call.legal => CardsConserved(game))
  /\ [][call'.legal => LeaveByPurchase]_vars

\* A fifth card has been bought: it is in no place any more, and five
\* developments stand for the five cards that left.
C38_FifthCardBought ==
  /\ call.made /\ call.legal /\ ~panicked
  /\ call.action.tag = "Purchase"
  /\ call.action.num \notin InPlaces(game)
  /\ NumCards - Cardinality(InPlaces(game)) = 5
  /\ DevelopmentsOf(game.players, NumPlayers(game)) = 5

\* Every row is full unless its deck is empty, and shows cards of its tier.
RowsFull(g) ==
  \A t \in 1..3 :
    /\ Len(g.dealt_cards[t]) < 4 => Len(g.decks[t]) = 0
    /\ \A i \in 1..Len(g.dealt_cards[t]) : Card(g.dealt_cards[t][i]).tier = t

\* What becomes of the rows and decks when the face-up card id leaves the
\* board of g: its row loses it and gains the last card of the tier's deck
\* when there is one, and the other tiers are as they were.
Replaced(g, id, after) ==
  LET t == TierOf(g, id) + 1
      deck == g.decks[t]
  IN  /\ IF Len(deck) > 0
         THEN /\ after.dealt_cards[t] = Append(Retain(g.dealt_cards[t], id), LastOf(deck))
              /\ after.decks[t] = SubSeq(deck, 1, Len(deck) - 1)
              /\ Len(after.dealt_cards[t]) = Len(g.dealt_cards[t])
         ELSE /\ after.dealt_cards[t] = Retain(g.dealt_cards[t], id)
              /\ after.decks[t] = deck
      /\ \A u \in (1..3) \ {t} :
           /\ after.dealt_cards[u] = g.dealt_cards[u]
           /\ after.decks[u] = g.decks[u]

\* A step in which a Reserve or a Purchase of a face-up card is applied
\* replaces the card.
RefillStep ==
  (/\ call'.legal /\ ~panicked'
   /\ Len(game'.history) = Len(game.history) + 1
   /\ call'.action.tag \in {"Reserve", "Purchase"}
   /\ HasCard(game, call'.action.num))
    => Replaced(game, call'.action.num, game')

\* C39: in a game advanced with actions of get_legal_actions(), a tier
\* shows fewer than 4 face-up cards only if its deck is empty, and when a
\* face-up card is reserved or purchased while the tier's deck has cards,
\* exactly one card of that deck takes its place in the row.
C39_BoardRefill == [](call.legal => RowsFull(game)) /\ [][RefillStep]_vars

\* The deck of the third tier is empty and a face-up card of the tier has
\* just been reserved: the row shows three cards.
C39_ShortRow ==
  /\ call.made /\ call.legal /\ ~panicked
  /\ call.action.tag = "Reserve"
  /\ Card(call.action.num).tier = 3
  /\ Len(game.decks[3]) = 0
  /\ Len(game.dealt_cards[3]) = 3

----------------------------------------------------------------------------
(* The end of a match one of whose seats has two client tasks *)

\* A match of n players in progress in which client c was registered twice
\* (both handlers passed clients.get(&my_id).is_some() before either
\* inserted): connection n + 1 came with the id c as well, its insert
\* replaced the entry of connection c, and each connection has its task.
Doubled(n, g, c) ==
  /\ arena = [ArenaNew(n, InitialTime, LobbyIncrement) EXCEPT
                !.game_started = TRUE,
                !.clock.current_player = Some(g.current_player)]
  /\ clients = [k \in 1..n |-> IF k = c THEN n + 1 ELSE k]
  /\ threads = [th \in 1..(2 * MaxConnections) |->
                  IF th \in 1..(n + 1) THEN [IdleThread EXCEPT !.pc = "done"]
                  ELSE IF th \in Tasks /\ ConnectionOf(th) \in 1..(n + 1)
                  THEN [IdleThread EXCEPT !.pc = "wait"]
                  ELSE IdleThread]
  /\ sockets = [h \in Handlers |->
                  IF h \in 1..(n + 1)
                  THEN [IdleSocket EXCEPT
                          !.client = IF h = n + 1 THEN c ELSE h,
                          !.updated = IF h = c THEN -1 ELSE NumActions(g),
                          !.requested = IF clients[g.current_player + 1] = h
                                        THEN NumActions(g) ELSE -1]
                  ELSE IdleSocket]

InitRace ==
  /\ debug_assertions \in BOOLEAN
  /\ \E m \in Endings :
       /\ deal = Matches[m].deal
       /\ game = Matches[m].game
       /\ \E c \in 1..Deals[Matches[m].deal].n :
            Doubled(Deals[Matches[m].deal].n, Matches[m].game, c)
  /\ applied = <<>>
  /\ web = NoWeb
  /\ NoEngineCall

\* What the clients of the match send: the action that ends it, or a text
\* that is no ClientMessage.
RaceMessages == {ClientMessageAction(Pass), [kind |-> "garbage", action |-> Continue]}

RaceSends ==
  \E h \in Handlers, message \in RaceMessages :
    /\ sockets[h].open
    /\ Send(h, message)

\* The last moves of the match.
NextRace ==
  \/ HapUpdate
  \/ HapGameOver
  \/ HapRequest
  \/ TaskTurn
  \/ TaskReceive
  \/ TaskTimeout
  \/ TaskValidate
  \/ TaskPlay
  \/ DefaultRead
  \/ DefaultPlay
  \/ TaskLeave
  \/ RaceSends
  \/ Tick

SpecRace == InitRace /\ [][NextRace]_vars

\* A step from a finished game leaves the game, its history and the clock
\* as they are, and applies no action.
FrozenStep ==
  IsGameOver(game)
    => /\ game' = game
       /\ arena'.clock = arena.clock
       /\ applied' = applied

\* C35: once the game is over no client task applies an action, submitted
\* or default: the game, its history and the clock never change afterwards.
C35_FrozenAfterEnd == [][FrozenStep]_vars

----------------------------------------------------------------------------
(* play_default_action: which action the task applies *)

\* A game in progress: the game of the deal Deadlock2 after the first 25
\* actions of its line, the player to move holding 11 gems.
Deadlock2Capped ==
  [history |-> <<<<0, [gems |-> <<0, 0, 0, 0, 0, 0>>, tag |-> "TakeDouble", num |-> 4]>>, <<0,
  [gems |-> <<0, 0, 0, 0, 0, 0>>, tag |-> "Pass", num |-> 0]>>, <<0, [gems |-> <<0, 0, 0, 0, 0,
  0>>, tag |-> "Continue", num |-> 0]>>, <<1, [gems |-> <<0, 1, 1, 1, 0, 0>>, tag |->
  "TakeDistinct", num |-> 0]>>, <<1, [gems |-> <<0, 0, 0, 0, 0, 0>>, tag |-> "Pass", num |-> 0]>>,
  <<1, [gems |-> <<0, 0, 0, 0, 0, 0>>, tag |-> "Continue", num |-> 0]>>, <<0, [gems |-> <<0, 1, 1,
  1, 0, 0>>, tag |-> "TakeDistinct", num |-> 0]>>, <<0, [gems |-> <<0, 0, 0, 0, 0, 0>>, tag |->
  "Pass", num |-> 0]>>, <<0, [gems |-> <<0, 0, 0, 0, 0, 0>>, tag |-> "Continue", num |-> 0]>>,
  <<1, [gems |-> <<1, 1, 1, 0, 0, 0>>, tag |-> "TakeDistinct", num |-> 0]>>, <<1, [gems |-> <<0,
  0, 0, 0, 0, 0>>, tag |-> "Pass", num |-> 0]>>, <<1, [gems |-> <<0, 0, 0, 0, 0, 0>>, tag |->
  "Continue", num |-> 0]>>, <<0, [gems |-> <<1, 0, 1, 0, 1, 0>>, tag |-> "TakeDistinct", num |->
  0]>>, <<0, [gems |-> <<0, 0, 0, 0, 0, 0>>, tag |-> "Pass", num |-> 0]>>, <<0, [gems |-> <<0, 0,
  0, 0, 0, 0>>, tag |-> "Continue", num |-> 0]>>, <<1, [gems |-> <<1, 1, 0, 0, 1, 0>>, tag |->
  "TakeDistinct", num |-> 0]>>, <<1, [gems |-> <<0, 0, 0, 0, 0, 0>>, tag |-> "Pass", num |-> 0]>>,
  <<1, [gems |-> <<0, 0, 0, 0, 0, 0>>, tag |-> "Continue", num |-> 0]>>, <<0, [gems |-> <<1, 0, 0,
  0, 1, 0>>, tag |-> "TakeDistinct", num |-> 0]>>, <<0, [gems |-> <<0, 0, 0, 0, 0, 0>>, tag |->
  "Pass", num |-> 0]>>, <<0, [gems |-> <<0, 0, 0, 0, 0, 0>>, tag |-> "Continue", num |-> 0]>>,
  <<1, [gems |-> <<0, 0, 0, 0, 1, 0>>, tag |-> "TakeDistinct", num |-> 0]>>, <<1, [gems |-> <<0,
  0, 0, 0, 0, 0>>, tag |-> "Pass", num |-> 0]>>, <<1, [gems |-> <<0, 0, 0, 0, 0, 0>>, tag |->
  "Continue", num |-> 0]>>, <<0, [gems |-> <<0, 0, 0, 0, 0, 0>>, tag |-> "ReserveHidden", num |->
  2]>>>>, current_phase |-> "PlayerGemCapExceeded", players |-> <<[gems |-> <<2, 1, 2, 3, 2, 1>>,
  points |-> 0, developments |-> <<0, 0, 0, 0, 0, 0>>, noble_points |-> 0, reserved |-> <<89>>,
  blind_reserved |-> <<89>>], [gems |-> <<2, 3, 2, 1, 2, 0>>, points |-> 0, developments |-> <<0,
  0, 0, 0, 0, 0>>, noble_points |-> 0, reserved |-> <<>>, blind_reserved |-> <<>>]>>,
  current_player |-> 0, dealt_cards |-> <<<<6, 7, 11, 14>>, <<40, 41, 42, 43>>, <<70, 71, 72,
  73>>>>, decks |-> <<<<0, 1, 2, 3, 4, 5, 8, 9, 10, 12, 13, 15, 16, 17, 18, 19, 20, 21, 22, 23,
  24, 25, 26, 27, 28, 29, 30, 31, 32, 33, 34, 35, 36, 37, 38, 39>>, <<44, 45, 46, 47, 48, 49, 50,
  51, 52, 53, 54, 55, 56, 57, 58, 59, 60, 61, 62, 63, 64, 65, 66, 67, 68, 69>>, <<74, 75, 76, 77,
  78, 79, 80, 81, 82, 83, 84, 85, 86, 87, 88>>>>, nobles |-> <<0, 1, 2>>, bank |-> <<0, 0, 0, 0,
  0, 4>>, deadlock_count |-> 0]

\* A match in which the player to move must discard.
InitDefault ==
  /\ debug_assertions \in BOOLEAN
  /\ deal = 1
  /\ game = Deadlock2Capped
  /\ Match(Deals[1].n, Deadlock2Capped)
  /\ applied = <<>>
  /\ web = NoWeb
  /\ NoEngineCall

NextDefault ==
  \/ HapUpdate
  \/ HapRequest
  \/ TaskTurn
  \/ TaskReceive
  \/ TaskTimeout
  \/ TaskValidate
  \/ TaskPlay
  \/ DefaultRead
  \/ DefaultPlay
  \/ ClientSends
  \/ Tick

SpecDefault == InitDefault /\ [][NextDefault]_vars

\* The task th reads the action it is going to apply:
\* get_legal_actions().unwrap()[0].
ReadsDefault(th) == threads[th].pc = "default" /\ threads'[th].pc = "default_play"

\* Whatever the task reads, it is the only value the first element of
\* get_legal_actions() can have in this state of the game.
SameForEqualGames ==
  \A th \in Tasks : ReadsDefault(th) => FirstLegalActions(game) = {threads'[th].action}

\* C36: the default action is a function of the game state alone: from
\* equal game states play_default_action applies the same action, the first
\* element of get_legal_actions(), in every phase, also where several
\* Discard, payment or TakeDistinct options exist.
C36_DefaultDetermined == [][SameForEqualGames]_vars

----------------------------------------------------------------------------
(* InitializeGame and the pushes of a started match *)

\* A message written to the mirror in this step is a GameUpdates message:
\* the count of InitializeGame messages stays what the launch left.
PushesAreUpdates == web'.inits = web.inits

\* C37: InitializeGame is sent exactly once per arena, in the launch
\* handshake; every push made once the clients have connected, the push of
\* the start of the game with no action played included, is a GameUpdates
\* message.
C37_InitializeOnce == [][PushesAreUpdates]_vars

=============================================================================
